---- MODULE Spec2Model ----
(***************************************************************************)
(* Verification model of the flow-studio run engine.                       *)
(*                                                                         *)
(* Part 1 (SpecReplay): swarm/runtime/state_builder.py, the reducer that   *)
(* rebuilds a RunState from events.jsonl, together with verify_run_state   *)
(* and recover_run_state.  The replay loop of rebuild_run_state is the     *)
(* state machine: each step appends one event to the log and applies it,   *)
(* so `rstate` is always the fold of apply_event over the log so far.      *)
(*                                                                         *)
(* Part 2 (SpecApi): swarm/api/routes/runs.py, the RunStateManager and the *)
(* run control endpoints.  Every `await` of a handler is a scheduling      *)
(* point, so a request is a small process with a program counter.          *)
(***************************************************************************)
EXTENDS Integers, Sequences, FiniteSets, TLC

\* ------------------------------------------------------------------------
\* Bounds of the model
\* ------------------------------------------------------------------------

\* Maximum number of events in a replayed log.
MaxEvents == 3

\* Maximum number of events in the log of a run that is verified or recovered.
MaxStoredEvents == 2

\* ------------------------------------------------------------------------
\* Value domains
\* ------------------------------------------------------------------------

\* A missing key / Python None for string-valued fields.
NoVal == "<none>"

\* A missing key for integer-valued fields.
NoInt == 0 - 1

FlowKeys == {"build", "reset"}

StepIds == {"1", "2"}

OptFlow == FlowKeys \cup {NoVal}

OptStep == StepIds \cup {NoVal}

Indices == {0, 1}

OptIndex == Indices \cup {NoInt}

RunIdOfLog == "run-1"

\* ------------------------------------------------------------------------
\* RunState (swarm.runtime.types.RunState) and its interruption stack
\* ------------------------------------------------------------------------

\* RunState(run_id=run_id, flow_key="", status="pending") with the defaults
\* of the remaining fields.  The fields that no handler reads and that
\* verify_run_state does not compare (timestamp, loop_state,
\* handoff_envelopes, injected_node_specs, flow_transition_history) are
\* write-only in state_builder.py and are left out.
NewRunState ==
  [ run_id             |-> RunIdOfLog,
    flow_key           |-> "",
    status             |-> "pending",
    step_index         |-> 0,
    current_step_id    |-> NoVal,
    current_flow_index |-> 1,
    completed_nodes    |-> {},
    injected_nodes     |-> {},
    interruption_stack |-> << >> ]

\* InterruptionFrame built by RunState.push_interruption.
Frame(reason, return_node, ctx_step_index, total_steps, sidequest_id) ==
  [ reason             |-> reason,
    return_node        |-> return_node,
    ctx_step_index     |-> ctx_step_index,
    ctx_flow_key       |-> NoVal,
    current_step_index |-> 0,
    total_steps        |-> total_steps,
    sidequest_id       |-> sidequest_id ]

\* RunState.push_interruption: the frame goes on top of the stack.
push_interruption(s, frame) ==
  [s EXCEPT !.interruption_stack = Append(@, frame)]

\* RunState.pop_interruption: the state after removing the top frame (the
\* stack is left alone when it is empty, the call returns None).
pop_interruption(s) ==
  IF s.interruption_stack = << >>
  THEN s
  ELSE [s EXCEPT !.interruption_stack = SubSeq(@, 1, Len(@) - 1)]

\* RunState.peek_interruption on a non-empty stack.
peek_interruption(s) == s.interruption_stack[Len(s.interruption_stack)]

get_interruption_depth(s) == Len(s.interruption_stack)

\* RunState.mark_node_completed
mark_node_completed(s, step_id) ==
  [s EXCEPT !.completed_nodes = @ \cup {step_id}]

\* RunState.add_injected_node
add_injected_node(s, node_id) ==
  [s EXCEPT !.injected_nodes = @ \cup {node_id}]

\* ------------------------------------------------------------------------
\* Events
\* ------------------------------------------------------------------------

\* A payload with no key set.
EmptyPayload ==
  [ flow_key        |-> NoVal,
    flow_index      |-> NoInt,
    step_id         |-> NoVal,
    step_index      |-> NoInt,
    next_step_index |-> NoInt,
    status          |-> NoVal,
    next_node       |-> NoVal,
    has_snapshot    |-> FALSE,
    return_node     |-> NoVal,
    ctx_step_index  |-> NoInt,
    sidequest_id    |-> NoVal,
    total_steps     |-> NoInt,
    to_flow         |-> NoVal,
    node_id         |-> NoVal,
    utility_flow_id |-> NoVal,
    first_node_id   |-> NoVal ]

\* RunEvent(kind, flow_key, step_id, payload)
RunEvent(kind, flow_key, step_id, payload) ==
  [kind |-> kind, flow_key |-> flow_key, step_id |-> step_id, payload |-> payload]

\* Python `a or b` on optional strings.
OrElse(a, b) == IF a = NoVal \/ a = "" THEN b ELSE a

\* Python dict.get(key, default) on optional integers.
GetInt(v, default) == IF v = NoInt THEN default ELSE v

\* ------------------------------------------------------------------------
\* The reducer: one operator per handler of _apply_event
\* ------------------------------------------------------------------------

apply_run_started(s, e) ==
  LET fk == OrElse(IF e.payload.flow_key # NoVal THEN e.payload.flow_key ELSE e.flow_key, "")
      fi == GetInt(e.payload.flow_index, 1)
  IN [s EXCEPT !.status = "running",
               !.flow_key = fk,
               !.current_flow_index = fi]

apply_step_started(s, e) ==
  [s EXCEPT !.current_step_id = OrElse(e.step_id, e.payload.step_id),
            !.step_index = GetInt(e.payload.step_index, @),
            !.flow_key = IF e.flow_key # NoVal THEN e.flow_key ELSE @]

\* _apply_step_completed counting one step up instead of reading the payload.
apply_step_completed_counting(s, e) ==
  LET step_id == OrElse(e.step_id, e.payload.step_id)
  IN IF step_id = NoVal
     THEN s
     ELSE [mark_node_completed(s, step_id) EXCEPT !.step_index = @ + 1]

apply_step_completed(s, e) ==
  LET step_id == OrElse(e.step_id, e.payload.step_id)
  IN IF step_id = NoVal
     THEN s
     ELSE [mark_node_completed(s, step_id) EXCEPT
             !.step_index = GetInt(e.payload.next_step_index, @)]

apply_route_decision(s, e) ==
  [s EXCEPT !.current_step_id = IF e.payload.next_node # NoVal
                                THEN e.payload.next_node ELSE @,
            !.step_index = GetInt(e.payload.step_index, @)]

apply_checkpoint(s, e) ==
  IF ~e.payload.has_snapshot
  THEN s
  ELSE [s EXCEPT !.step_index = GetInt(e.payload.step_index, @),
                 !.current_step_id = IF e.payload.step_id # NoVal
                                     THEN e.payload.step_id ELSE @]

apply_flow_paused(s, e) ==
  LET return_node == OrElse(e.payload.return_node, OrElse(s.current_step_id, ""))
      paused == [s EXCEPT !.status = "paused"]
  IN push_interruption(paused,
       Frame("paused", return_node, e.payload.ctx_step_index, 1, NoVal))

apply_run_stopped(s, e) == [s EXCEPT !.status = "stopped"]

apply_run_completed(s, e) ==
  [s EXCEPT !.status = IF e.payload.status # NoVal THEN e.payload.status
                       ELSE "succeeded"]

apply_run_failed(s, e) == [s EXCEPT !.status = "failed"]

apply_flow_started(s, e) ==
  [s EXCEPT !.flow_key = IF e.flow_key # NoVal THEN e.flow_key
                         ELSE IF e.payload.flow_key # NoVal THEN e.payload.flow_key
                         ELSE @,
            !.current_flow_index = GetInt(e.payload.flow_index, @),
            !.step_index = 0,
            !.current_step_id = NoVal]

\* flow_completed only appends to flow_transition_history.
apply_flow_completed(s, e) == s

apply_macro_route(s, e) ==
  [s EXCEPT !.flow_key = IF e.payload.to_flow # NoVal THEN e.payload.to_flow ELSE @,
            !.current_flow_index = GetInt(e.payload.flow_index, @)]

apply_detour_started(s, e) ==
  LET return_node == OrElse(e.payload.return_node, OrElse(s.current_step_id, ""))
  IN push_interruption(s,
       Frame("detour", return_node, e.payload.ctx_step_index,
             GetInt(e.payload.total_steps, 1), e.payload.sidequest_id))

apply_detour_completed(s, e) ==
  IF s.interruption_stack = << >>
  THEN s
  ELSE LET frame == peek_interruption(s)
       IN [pop_interruption(s) EXCEPT
             !.current_step_id = IF frame.return_node # "" THEN frame.return_node ELSE @,
             !.step_index = GetInt(frame.ctx_step_index, @)]

apply_node_injected(s, e) ==
  IF e.payload.node_id = NoVal
  THEN s
  ELSE add_injected_node(s, e.payload.node_id)

\* _apply_event: dispatch on the event kind; an unknown kind leaves the
\* state alone.
apply_event(s, e) ==
  CASE e.kind = "run_started"      -> apply_run_started(s, e)
    [] e.kind = "step_started"     -> apply_step_started(s, e)
    [] e.kind = "step_completed"   -> apply_step_completed(s, e)
    [] e.kind = "route_decision"   -> apply_route_decision(s, e)
    [] e.kind = "checkpoint"       -> apply_checkpoint(s, e)
    [] e.kind = "flow_paused"      -> apply_flow_paused(s, e)
    [] e.kind = "run_stopped"      -> apply_run_stopped(s, e)
    [] e.kind = "run_completed"    -> apply_run_completed(s, e)
    [] e.kind = "run_failed"       -> apply_run_failed(s, e)
    [] e.kind = "flow_started"     -> apply_flow_started(s, e)
    [] e.kind = "flow_completed"   -> apply_flow_completed(s, e)
    [] e.kind = "macro_route"      -> apply_macro_route(s, e)
    [] e.kind = "detour_started"   -> apply_detour_started(s, e)
    [] e.kind = "detour_completed" -> apply_detour_completed(s, e)
    [] e.kind = "node_injected"    -> apply_node_injected(s, e)
    [] OTHER                       -> s

\* ------------------------------------------------------------------------
\* State of the replay model
\* ------------------------------------------------------------------------

VARIABLES
  rstate,       \* `state` of rebuild_run_state: the fold of the log so far
  live,         \* the RunState the engine holds in memory while it emits the log
  nEvents,      \* number of events in events.jsonl
  stored,       \* run_state.json: [present, st]
  phase,        \* "replaying", or "done" after verify / recover was called
  outcome,      \* what verify_run_state / recover_run_state returned
  openDetours,  \* history: per detour_started not yet completed, the stack depth
                \* before it and the return node of the frame it pushed
  lastDetour,   \* history: depths around the detour closed by the last event
  lastStep      \* history: step_index around the step_completed just applied

replayVars ==
  << rstate, live, nEvents, stored, phase, outcome, openDetours, lastDetour, lastStep >>

\* State of the API model (Part 2)
VARIABLES
  disk,    \* run_state.json of the run: [present, complete, st]
  tmp,     \* run_state.tmp of the run: [present, complete, st]
  cache,   \* RunStateManager._cache[run_id]: [present, st]
  lock,    \* the client whose request holds the run's asyncio.Lock
  clock,   \* the next value datetime.now() returns
  issued,  \* number of requests sent so far
  req      \* per client: the request in flight (or the last one answered)

apiVars == << disk, tmp, cache, lock, clock, issued, req >>

\* State of the library models (Part 3): one object each
VARIABLES
  dm,      \* a DetourMatcher: its registry, its attempt tracker, its last answer
  ck,      \* a flow directory of a run and what find_resume_point returned for it
  ih,      \* a process with an InterruptHandler, and its interrupt_state.json
  cb,      \* a call of ContextBudgetEnforcer.enforce: its input and its result
  pt,      \* a ProgressTracker and the last method called on it
  sc,      \* a SidequestCatalog, its usage counts and its last answer
  ml,      \* a MicroloopState and the exit decision taken on it
  ex,      \* a call of extract_with_microloop: its attempts and its result
  bs,      \* a step's workspace states and the boundary scan after it
  scent,   \* a ScentTrail and its last check_for_conflicts call
  tc,      \* a NormalizedToolCall, its to_dict() and the from_dict() of that
  lp       \* a microloop run: its passes and how it exited

libVars == << dm, ck, ih, cb, pt, sc, ml, ex, bs, scent, tc, lp >>

NoStep == [applied |-> FALSE, named |-> FALSE, before |-> 0, next |-> NoInt]

NoDetour ==
  [matched |-> FALSE, before |-> 0, after |-> 0, popped |-> 0,
   started_from |-> NoVal, top_return |-> NoVal]

NoOutcome ==
  [op |-> "none", force |-> FALSE, ok |-> FALSE, found |-> FALSE, result |-> NewRunState]

\* The engine applying a chosen utility flow to its in-memory state: push a
\* frame capturing the original (flow_key, step_id, step_index), switch
\* flow_key to the utility flow, enter its first node.
apply_utility_flow_injection(s, e) ==
  LET frame == [Frame("utility_flow", OrElse(s.current_step_id, ""), s.step_index,
                      GetInt(e.payload.total_steps, 1), NoVal)
                  EXCEPT !.ctx_flow_key = s.flow_key]
  IN [push_interruption(s, frame) EXCEPT
        !.flow_key = e.payload.utility_flow_id,
        !.current_step_id = e.payload.first_node_id]

\* What the engine's in-memory state becomes when it emits event e: the log
\* records the engine's own transitions.
LiveApply(s, e) ==
  IF e.kind = "utility_flow_injected"
  THEN apply_utility_flow_injection(s, e)
  ELSE apply_event(s, e)

\* rebuild_run_state: FileNotFoundError without events, else the fold.
rebuild_run_state == [found |-> nEvents > 0, st |-> rstate]

\* read_run_state: None when run_state.json is absent.
read_run_state == stored

\* The field comparison of verify_run_state: TRUE when no field mismatches.
FieldsMatch(a, b) ==
  /\ a.run_id = b.run_id
  /\ a.flow_key = b.flow_key
  /\ a.status = b.status
  /\ a.step_index = b.step_index
  /\ a.current_step_id = b.current_step_id
  /\ a.current_flow_index = b.current_flow_index
  /\ a.completed_nodes = b.completed_nodes
  /\ a.injected_nodes = b.injected_nodes

\* verify_run_state
verify_run_state ==
  IF ~rebuild_run_state.found
  THEN ~read_run_state.present
  ELSE IF ~read_run_state.present
       THEN FALSE
       ELSE FieldsMatch(read_run_state.st, rebuild_run_state.st)

\* recover_run_state with the force flag ignored: a stored state always wins.
recover_run_state_ignoring_force(force) ==
  IF read_run_state.present
  THEN [found |-> TRUE, result |-> read_run_state.st]
  ELSE IF rebuild_run_state.found
       THEN [found |-> TRUE, result |-> rebuild_run_state.st]
       ELSE [found |-> FALSE, result |-> NewRunState]

\* recover_run_state(force): [found, result]
recover_run_state(force) ==
  IF ~force /\ read_run_state.present
  THEN [found |-> TRUE, result |-> read_run_state.st]
  ELSE IF rebuild_run_state.found
       THEN [found |-> TRUE, result |-> rebuild_run_state.st]
       ELSE [found |-> FALSE, result |-> NewRunState]

InitReplayVars ==
  /\ rstate = NewRunState
  /\ live = NewRunState
  /\ nEvents = 0
  /\ stored = [present |-> FALSE, st |-> NewRunState]
  /\ phase = "replaying"
  /\ outcome = NoOutcome
  /\ openDetours = << >>
  /\ lastDetour = NoDetour
  /\ lastStep = NoStep

\* One iteration of the replay loop on the next event of the log.
Emit(e, max) ==
  /\ phase = "replaying"
  /\ nEvents < max
  /\ nEvents' = nEvents + 1
  /\ rstate' = apply_event(rstate, e)
  /\ live' = LiveApply(live, e)
  /\ openDetours' =
       IF e.kind = "detour_started"
       THEN Append(openDetours,
                   [depth       |-> get_interruption_depth(rstate),
                    return_node |-> peek_interruption(apply_event(rstate, e)).return_node])
       ELSE IF e.kind = "detour_completed" /\ openDetours # << >>
            THEN SubSeq(openDetours, 1, Len(openDetours) - 1)
            ELSE openDetours
  /\ lastDetour' =
       IF e.kind = "detour_completed" /\ openDetours # << >>
       THEN [matched      |-> TRUE,
             before       |-> openDetours[Len(openDetours)].depth,
             after        |-> get_interruption_depth(apply_event(rstate, e)),
             popped       |-> get_interruption_depth(rstate)
                                - get_interruption_depth(apply_event(rstate, e)),
             started_from |-> openDetours[Len(openDetours)].return_node,
             top_return   |-> peek_interruption(rstate).return_node]
       ELSE NoDetour
  /\ lastStep' =
       IF e.kind = "step_completed"
       THEN [applied |-> TRUE,
             named   |-> OrElse(e.step_id, e.payload.step_id) # NoVal,
             before  |-> rstate.step_index,
             next    |-> e.payload.next_step_index]
       ELSE NoStep
  /\ UNCHANGED << stored, phase, outcome >>
  /\ UNCHANGED << apiVars, libVars >>

EvRunStarted(max) ==
  \E pfk \in OptFlow, efk \in OptFlow, fi \in {NoInt, 2} :
    Emit(RunEvent("run_started", efk, NoVal,
                  [EmptyPayload EXCEPT !.flow_key = pfk, !.flow_index = fi]), max)

EvStepStarted(max) ==
  \E sid \in OptStep, psid \in OptStep, si \in OptIndex, efk \in OptFlow :
    Emit(RunEvent("step_started", efk, sid,
                  [EmptyPayload EXCEPT !.step_id = psid, !.step_index = si]), max)

EvStepCompleted(max) ==
  \E sid \in OptStep, psid \in OptStep, nsi \in OptIndex :
    Emit(RunEvent("step_completed", NoVal, sid,
                  [EmptyPayload EXCEPT !.step_id = psid, !.next_step_index = nsi]), max)

EvRouteDecision(max) ==
  \E nn \in OptStep, si \in OptIndex :
    Emit(RunEvent("route_decision", NoVal, NoVal,
                  [EmptyPayload EXCEPT !.next_node = nn, !.step_index = si]), max)

EvCheckpoint(max) ==
  \E hs \in BOOLEAN, si \in OptIndex, sid \in OptStep :
    Emit(RunEvent("checkpoint", NoVal, NoVal,
                  [EmptyPayload EXCEPT !.has_snapshot = hs, !.step_index = si,
                                       !.step_id = sid]), max)

EvFlowPaused(max) ==
  \E rn \in OptStep, csi \in OptIndex :
    Emit(RunEvent("flow_paused", NoVal, NoVal,
                  [EmptyPayload EXCEPT !.return_node = rn, !.ctx_step_index = csi]), max)

EvRunStopped(max) == Emit(RunEvent("run_stopped", NoVal, NoVal, EmptyPayload), max)

EvRunCompleted(max) ==
  \E st \in {NoVal, "succeeded", "failed"} :
    Emit(RunEvent("run_completed", NoVal, NoVal, [EmptyPayload EXCEPT !.status = st]), max)

EvRunFailed(max) == Emit(RunEvent("run_failed", NoVal, NoVal, EmptyPayload), max)

EvFlowStarted(max) ==
  \E efk \in OptFlow, pfk \in OptFlow, fi \in {NoInt, 2} :
    Emit(RunEvent("flow_started", efk, NoVal,
                  [EmptyPayload EXCEPT !.flow_key = pfk, !.flow_index = fi]), max)

EvFlowCompleted(max) ==
  \E efk \in OptFlow :
    Emit(RunEvent("flow_completed", efk, NoVal, EmptyPayload), max)

EvMacroRoute(max) ==
  \E tf \in OptFlow, fi \in {NoInt, 2} :
    Emit(RunEvent("macro_route", NoVal, NoVal,
                  [EmptyPayload EXCEPT !.to_flow = tf, !.flow_index = fi]), max)

EvDetourStarted(max) ==
  \E rn \in OptStep, csi \in OptIndex, sq \in {"sq-lint-fix"}, ts \in {NoInt} :
    Emit(RunEvent("detour_started", NoVal, NoVal,
                  [EmptyPayload EXCEPT !.return_node = rn, !.ctx_step_index = csi,
                                       !.sidequest_id = sq, !.total_steps = ts]), max)

EvDetourCompleted(max) ==
  \E sq \in {"sq-lint-fix"} :
    Emit(RunEvent("detour_completed", NoVal, NoVal,
                  [EmptyPayload EXCEPT !.sidequest_id = sq]), max)

EvNodeInjected(max) ==
  \E nid \in OptStep :
    Emit(RunEvent("node_injected", NoVal, NoVal, [EmptyPayload EXCEPT !.node_id = nid]), max)

\* The engine injects a utility flow and logs utility_flow_injected.
EvUtilityFlowInjected(max) ==
  \E fn \in StepIds :
    Emit(RunEvent("utility_flow_injected", NoVal, NoVal,
                  [EmptyPayload EXCEPT !.utility_flow_id = "reset", !.first_node_id = fn]), max)

\* An informational event (boundary_violation): no handler.
EvBoundaryViolation(max) ==
  Emit(RunEvent("boundary_violation", NoVal, NoVal, EmptyPayload), max)

\* The engine snapshots its state into run_state.json (write_run_state).
WriteRunState ==
  /\ phase = "replaying"
  /\ stored' = [present |-> TRUE, st |-> live]
  /\ stored' # stored
  /\ UNCHANGED << rstate, live, nEvents, phase, outcome, openDetours, lastDetour, lastStep >>
  /\ UNCHANGED << apiVars, libVars >>

\* verify_run_state(run_id)
VerifyRunState ==
  /\ phase = "replaying"
  /\ phase' = "done"
  /\ outcome' = [NoOutcome EXCEPT !.op = "verify", !.ok = verify_run_state]
  /\ UNCHANGED << rstate, live, nEvents, stored, openDetours, lastDetour, lastStep >>
  /\ UNCHANGED << apiVars, libVars >>

\* recover_run_state(run_id, force)
RecoverRunState ==
  /\ phase = "replaying"
  /\ \E force \in BOOLEAN :
       LET r == recover_run_state(force)
       IN outcome' = [NoOutcome EXCEPT !.op = "recover", !.force = force,
                                       !.found = r.found, !.result = r.result]
  /\ phase' = "done"
  /\ UNCHANGED << rstate, live, nEvents, stored, openDetours, lastDetour, lastStep >>
  /\ UNCHANGED << apiVars, libVars >>

\* The engine (or a replay) handles the next event of a log of at most max
\* events.
Event(max) ==
  \/ EvRunStarted(max)
  \/ EvStepStarted(max)
  \/ EvStepCompleted(max)
  \/ EvRouteDecision(max)
  \/ EvCheckpoint(max)
  \/ EvFlowPaused(max)
  \/ EvRunStopped(max)
  \/ EvRunCompleted(max)
  \/ EvRunFailed(max)
  \/ EvFlowStarted(max)
  \/ EvFlowCompleted(max)
  \/ EvMacroRoute(max)
  \/ EvDetourStarted(max)
  \/ EvDetourCompleted(max)
  \/ EvNodeInjected(max)
  \/ EvUtilityFlowInjected(max)
  \/ EvBoundaryViolation(max)

\* ========================================================================
\* Part 2: the run control API (swarm/api/routes/runs.py)
\* ========================================================================

\* Total number of requests the clients send.
MaxRequests == 2

\* Two clients send requests concurrently; each has one request in flight.
Clients == {"a", "b"}

NoClient == "nobody"

\* status values of a run
Statuses ==
  {"pending", "running", "paused", "stopped", "interrupted", "succeeded",
   "failed", "canceled"}

\* A timestamp field that is None.
NoTime == 0 - 1

\* The step id that inject requests carry, and the step their position names.
InjectedStep == "x"

TargetStep == "2"

Positions == {"next", "after:2", "before:2", "last"}

Ops == {"create", "get", "pause", "resume", "inject", "interrupt", "cancel"}

Mutating == {"pause", "resume", "inject", "interrupt", "cancel"}

\* The state dict create_run builds at time now.
NewApiState(now) ==
  [ status        |-> "pending",
    pending_steps |-> << >>,
    injections    |-> 0,
    interrupt_at  |-> NoTime,
    created_at    |-> now,
    updated_at    |-> now,
    paused_at     |-> NoTime,
    completed_at  |-> NoTime ]

\* run_state.json of a run that an earlier server process or the engine
\* left on disk in status st.
ExistingRun(st) ==
  [NewApiState(0) EXCEPT
     !.status = st,
     !.pending_steps = << TargetStep >>,
     !.paused_at = IF st \in {"paused", "interrupted"} THEN 0 ELSE NoTime,
     !.completed_at = IF st \in {"succeeded", "failed", "stopped", "canceled"}
                      THEN 0 ELSE NoTime]

\* A file is complete when it holds the whole JSON text of a state; a file
\* that write_text has opened (and so truncated) and not finished writing
\* holds a prefix of the text.
NoFile == [present |-> FALSE, complete |-> TRUE, st |-> NewApiState(0)]

File(st) == [present |-> TRUE, complete |-> TRUE, st |-> st]

PartialFile(st) == [present |-> TRUE, complete |-> FALSE, st |-> st]

\* _save_state writing the JSON text straight into run_state.json.
tmp_path_is_state_path == "run_state.json"

\* tmp_path = state_path.with_suffix(".tmp")
tmp_path == "run_state.tmp"

state_path == "run_state.json"

\* A client's request is inside the part of _save_state that has no await
\* (write_text, os.replace, cache assignment): no other coroutine of the
\* server runs until it is through.
InSaveState == \E o \in DOMAIN req : req[o].pc \in {"writing", "written"}

\* RunStateManager._compute_etag: a digest of the canonical JSON of the
\* whole state dict, so two states have the same ETag exactly when all
\* their fields are equal (digest collisions aside).
compute_etag(st) ==
  << st.status, st.pending_steps, st.injections, st.interrupt_at, st.created_at,
     st.updated_at, st.paused_at, st.completed_at >>

NoTag == compute_etag(NewApiState(NoTime))


IdleRequest ==
  [ op         |-> "none",
    pc         |-> "idle",
    if_match   |-> "absent",   \* absent, empty, tag or stale
    tag        |-> NoTag,      \* the ETag an If-Match of kind tag carries
    position   |-> "next",
    now        |-> NoTime,
    found      |-> FALSE,      \* get_run found the run
    checked    |-> NoVal,      \* the status the validity check read
    etag_seen  |-> NoTag,      \* ETag of the state get_run returned
    etag_cur   |-> NoTag,      \* current_etag computed by update_run
    compared   |-> FALSE,      \* update_run has computed current_etag
    wrote      |-> FALSE,      \* update_run applied the updates
    stale      |-> FALSE,      \* the dict this request took from the cache was replaced
    held       |-> NewApiState(0),  \* that dict, when stale
    resp       |-> 0 ]

\* The state a read of the run is served from.
RunExists == cache.present \/ disk.present

Current == IF cache.present THEN cache.st ELSE disk.st

\* update_run without its If-Match comparison.
etag_mismatch_never(r, current_etag) == FALSE

\* The If-Match comparison of update_run: expected_etag is set (the header
\* is neither absent nor empty once stripped of quotes) and differs.
etag_mismatch(r, current_etag) ==
  /\ r.if_match \in {"tag", "stale"}
  /\ (r.if_match = "stale" \/ r.tag # current_etag)

\* The status checks with pause_run also accepting an interrupted run.
valid_status_pause_interrupted(op, status) ==
  CASE op = "pause"     -> status \in {"running", "pending", "interrupted"}
    [] op = "resume"    -> status = "paused"
    [] op = "inject"    -> status \in {"pending", "running", "paused"}
    [] op = "interrupt" -> status \in {"pending", "running"}
    [] op = "cancel"    -> status \notin {"succeeded", "failed", "canceled"}
    [] OTHER            -> TRUE

\* The status check of each endpoint.
valid_status(op, status) ==
  CASE op = "pause"     -> status \in {"running", "pending"}
    [] op = "resume"    -> status = "paused"
    [] op = "inject"    -> status \in {"pending", "running", "paused"}
    [] op = "interrupt" -> status \in {"pending", "running"}
    [] op = "cancel"    -> status \notin {"succeeded", "failed", "canceled"}
    [] OTHER            -> TRUE

\* Python list.insert(i, x), i counted from 0.
ListInsert(l, i, x) == SubSeq(l, 1, i) \o << x >> \o SubSeq(l, i + 1, Len(l))

\* Python list.index(x) for an x that occurs in l, counted from 0.
ListIndex(l, x) == (CHOOSE i \in 1..Len(l) : l[i] = x /\ \A j \in 1..(i - 1) : l[j] # x) - 1

Contains(l, x) == \E i \in 1..Len(l) : l[i] = x

\* inject_node: where the step goes in pending_steps
inject_position(pending, position) ==
  CASE position = "next" -> ListInsert(pending, 0, InjectedStep)
    [] position = "after:2" ->
         IF Contains(pending, TargetStep)
         THEN ListInsert(pending, ListIndex(pending, TargetStep) + 1, InjectedStep)
         ELSE Append(pending, InjectedStep)
    [] position = "before:2" ->
         IF Contains(pending, TargetStep)
         THEN ListInsert(pending, ListIndex(pending, TargetStep), InjectedStep)
         ELSE ListInsert(pending, 0, InjectedStep)
    [] OTHER -> Append(pending, InjectedStep)

\* What a handler does to the dict get_run returned before it calls
\* update_run: inject_node and interrupt_run change the cached lists and the
\* cached context in place.
mutate_in_place(st, op, position, now) ==
  CASE op = "inject" ->
         [st EXCEPT !.pending_steps = inject_position(@, position),
                    !.injections = @ + 1]
    [] op = "interrupt" -> [st EXCEPT !.interrupt_at = now]
    [] OTHER -> st

\* state.update(updates) of update_run for each endpoint; src is the dict
\* the handler took pending_steps and context from.
apply_updates(st, op, now, src) ==
  CASE op = "pause"     -> [st EXCEPT !.status = "paused", !.paused_at = now]
    [] op = "resume"    -> [st EXCEPT !.status = "running", !.paused_at = NoTime]
    [] op = "inject"    -> [st EXCEPT !.pending_steps = src.pending_steps,
                                      !.injections = src.injections,
                                      !.interrupt_at = src.interrupt_at]
    [] op = "interrupt" -> [st EXCEPT !.status = "interrupted", !.paused_at = now,
                                      !.injections = src.injections,
                                      !.interrupt_at = src.interrupt_at]
    [] op = "cancel"    -> [st EXCEPT !.status = "canceled", !.completed_at = now]
    [] OTHER            -> st

\* The requests of the other clients that hold the dict now in the cache
\* keep it when the cache entry is replaced by another dict.
Displace(rq, c) ==
  [o \in Clients |->
     IF o # c /\ rq[o].pc \in {"update", "save"} /\ rq[o].op \in Mutating /\ ~rq[o].stale
     THEN [rq[o] EXCEPT !.stale = TRUE, !.held = cache.st]
     ELSE rq[o]]

InitApiVars ==
  /\ disk \in {NoFile} \cup {File(ExistingRun(st)) : st \in Statuses}
  /\ tmp = NoFile
  /\ cache = NoFile
  /\ lock = NoClient
  /\ clock = 1
  /\ issued = 0
  /\ req = [c \in Clients |-> IdleRequest]

\* A client sends a request.  An If-Match header is absent, empty (""),
\* the ETag of the state a read would return now, or an ETag of some older
\* state.
Call(c) ==
  /\ req[c].pc \in {"idle", "done"}
  /\ ~InSaveState
  /\ issued < MaxRequests
  /\ issued' = issued + 1
  /\ \E op \in Ops, ifm \in {"absent", "empty", "tag", "stale"}, pos \in Positions :
       /\ ifm = "tag" => RunExists
       /\ op \notin Mutating => ifm = "absent"
       /\ op # "inject" => pos = "next"
       /\ req' = [req EXCEPT ![c] =
                    [IdleRequest EXCEPT
                       !.op = op, !.pc = "start", !.if_match = ifm, !.position = pos,
                       !.tag = IF ifm = "tag" THEN compute_etag(Current) ELSE NoTag]]
  /\ UNCHANGED << disk, tmp, cache, lock, clock >>
  /\ UNCHANGED << replayVars, libVars >>

\* start_run / create_run up to `await self._save_state`: the state dict is
\* built; the run's lock is not taken.
CreateRun(c) ==
  /\ req[c].pc = "start"
  /\ req[c].op = "create"
  /\ ~InSaveState
  /\ req' = [req EXCEPT ![c].pc = "save", ![c].now = clock,
                        ![c].stale = TRUE, ![c].held = NewApiState(clock)]
  /\ clock' = clock + 1
  /\ UNCHANGED << disk, tmp, cache, lock, issued >>
  /\ UNCHANGED << replayVars, libVars >>

\* GET /runs/{id}: get_run under the lock (a request without If-None-Match,
\* so the answer is 200 with the ETag, or 404).
GetRun(c) ==
  /\ req[c].pc = "start"
  /\ req[c].op = "get"
  /\ ~InSaveState
  /\ lock = NoClient
  /\ IF RunExists
     THEN /\ cache' = File(Current)
          /\ req' = [req EXCEPT ![c].pc = "done", ![c].found = TRUE, ![c].resp = 200,
                                ![c].etag_seen = compute_etag(Current)]
     ELSE /\ cache' = cache
          /\ req' = [req EXCEPT ![c].pc = "done", ![c].resp = 404]
  /\ UNCHANGED << disk, tmp, lock, clock, issued >>
  /\ UNCHANGED << replayVars, libVars >>

\* A control endpoint from get_run to its call of update_run: get_run under
\* the lock (404 when no file), the status check (409), then the changes the
\* handler makes to the dict it got.
GetAndCheck(c) ==
  /\ req[c].pc = "start"
  /\ req[c].op \in Mutating
  /\ ~InSaveState
  /\ lock = NoClient
  /\ IF ~RunExists
     THEN /\ req' = [req EXCEPT ![c].pc = "done", ![c].resp = 404]
          /\ UNCHANGED << cache, clock >>
     ELSE LET r == [req[c] EXCEPT !.found = TRUE, !.checked = Current.status,
                                  !.etag_seen = compute_etag(Current)]
          IN IF ~valid_status(r.op, Current.status)
             THEN /\ req' = [req EXCEPT ![c] = [r EXCEPT !.pc = "done", !.resp = 409]]
                  /\ cache' = File(Current)
                  /\ clock' = clock
             ELSE /\ req' = [req EXCEPT ![c] = [r EXCEPT !.pc = "update", !.now = clock]]
                  /\ cache' = File(mutate_in_place(Current, r.op, r.position, clock))
                  /\ clock' = clock + 1
  /\ UNCHANGED << disk, tmp, lock, issued >>
  /\ UNCHANGED << replayVars, libVars >>

\* update_run up to `await self._save_state`: take the lock, read the cached
\* dict, compare the ETag (412), apply the updates to the dict.
UpdateRun(c) ==
  /\ req[c].pc = "update"
  /\ ~InSaveState
  /\ lock = NoClient
  /\ LET current_etag == compute_etag(cache.st)
         r == [req[c] EXCEPT !.etag_cur = current_etag, !.compared = TRUE]
         src == IF r.stale THEN r.held ELSE cache.st
     IN IF etag_mismatch(r, current_etag)
        THEN /\ req' = [req EXCEPT ![c] = [r EXCEPT !.pc = "done", !.resp = 412]]
             /\ UNCHANGED << cache, lock, clock >>
        ELSE /\ cache' = File([apply_updates(cache.st, r.op, r.now, src)
                                 EXCEPT !.updated_at = clock])
             /\ clock' = clock + 1
             /\ lock' = c
             /\ req' = [req EXCEPT ![c] = [r EXCEPT !.pc = "save", !.wrote = TRUE,
                                                    !.stale = FALSE,
                                                    !.held = IdleRequest.held]]
  /\ UNCHANGED << disk, tmp, issued >>
  /\ UNCHANGED << replayVars, libVars >>

\* The dict a request in _save_state is saving.
Saving(c) == IF req[c].stale THEN req[c].held ELSE cache.st

\* Path(...).write_text and os.replace on the two files of the run directory.
WriteFile(path, f) ==
  IF path = state_path
  THEN disk' = f /\ tmp' = tmp
  ELSE tmp' = f /\ disk' = disk

\* _save_state, first half of tmp_path.write_text: the file is opened for
\* writing, which creates or truncates it, and the text starts to go in.
SaveState(c) ==
  /\ req[c].pc = "save"
  /\ ~InSaveState
  /\ WriteFile(tmp_path, PartialFile(Saving(c)))
  /\ req' = [req EXCEPT ![c].pc = "writing"]
  /\ UNCHANGED << cache, lock, clock, issued >>
  /\ UNCHANGED << replayVars, libVars >>

\* _save_state, second half of tmp_path.write_text: the whole text is in the
\* file and the file is closed.
WriteText(c) ==
  /\ req[c].pc = "writing"
  /\ WriteFile(tmp_path, File(Saving(c)))
  /\ req' = [req EXCEPT ![c].pc = "written"]
  /\ UNCHANGED << cache, lock, clock, issued >>
  /\ UNCHANGED << replayVars, libVars >>

\* _save_state from os.replace(tmp_path, state_path) on: the file at tmp_path
\* takes the place of run_state.json in one step, the dict goes in the cache;
\* update_run then releases the lock it holds.
Replace(c) ==
  /\ req[c].pc = "written"
  /\ LET st == Saving(c)
         rq == IF req[c].stale THEN Displace(req, c) ELSE req
     IN /\ IF tmp_path = state_path
           THEN UNCHANGED << disk, tmp >>
           ELSE disk' = tmp /\ tmp' = NoFile
        /\ cache' = File(st)
        /\ req' = [rq EXCEPT ![c].pc = "done", ![c].stale = FALSE,
                             ![c].held = IdleRequest.held,
                             ![c].resp = IF req[c].op = "create" THEN 201 ELSE 200]
  /\ lock' = IF lock = c THEN NoClient ELSE lock
  /\ UNCHANGED << clock, issued >>
  /\ UNCHANGED << replayVars, libVars >>

NextApi ==
  \E c \in Clients :
    \/ Call(c)
    \/ CreateRun(c)
    \/ GetRun(c)
    \/ GetAndCheck(c)
    \/ UpdateRun(c)
    \/ SaveState(c)
    \/ WriteText(c)
    \/ Replace(c)

\* ------------------------------------------------------------------------
\* Part 3: library models
\* ------------------------------------------------------------------------

\* ---- DetourMatcher (detour_matcher.py) ----

MaxChecks == 4

\* Two of the built-in signatures and one that register_signature adds.
SignatureIds == {"upstream-diverged", "lint-errors", "custom"}

DetourSteps == {"1", "2"}

\* max_attempts a caller gives the signature it registers.
CustomMaxAttempts == {0, 1}

NoSignature == [registered |-> FALSE, max_attempts |-> 0, priority |-> 0]

\* DetourMatcher._register_default_signatures
DefaultSignatures ==
  [id \in SignatureIds |->
     CASE id = "upstream-diverged" -> [registered |-> TRUE, max_attempts |-> 1, priority |-> 100]
       [] id = "lint-errors"       -> [registered |-> TRUE, max_attempts |-> 2, priority |-> 90]
       [] OTHER                    -> NoSignature]

\* Keys of _attempt_tracker, "<step_id>:<signature_id>".
AttemptKeys == DetourSteps \X SignatureIds

\* No DetourAttempt under a key.
NoAttempt == 0 - 1

NoMatch == [matched |-> FALSE, signature_id |-> NoVal, attempt_number |-> 1, max_attempts |-> 2]

NoAnswer ==
  [ step_id |-> NoVal, forensics |-> {}, decision |-> NoVal, detour_id |-> NoVal,
    attempt_number |-> 0, max_attempts |-> 0, attempts_before |-> 0, return_to |-> NoVal ]

\* DetourMatcher.__init__, with the history of its use: issued counts the
\* DETOUR decisions given for a key since the key's attempts were last
\* reset, answer is what the last check_for_detour returned.
NewDetourMatcher ==
  [ signatures      |-> DefaultSignatures,
    attempt_tracker |-> [k \in AttemptKeys |-> NoAttempt],
    issued          |-> [k \in AttemptKeys |-> 0],
    answer          |-> NoAnswer,
    calls           |-> 0 ]

\* DetourMatcher.get_attempt_count
get_attempt_count(m, signature_id, step_id) ==
  IF m.attempt_tracker[<< step_id, signature_id >>] = NoAttempt
  THEN 0
  ELSE m.attempt_tracker[<< step_id, signature_id >>]

\* DetourMatcher.match.  The forensics are taken as the set of signature ids
\* whose patterns or structured checks they satisfy; the registered ones are
\* tried by descending priority and the first that matches is returned.
match(m, forensics, step_id) ==
  LET hits == {id \in forensics : m.signatures[id].registered}
  IN IF hits = {}
     THEN NoMatch
     ELSE LET id == CHOOSE h \in hits :
                      \A o \in hits : m.signatures[o].priority <= m.signatures[h].priority
          IN [ matched        |-> TRUE,
               signature_id   |-> id,
               attempt_number |-> get_attempt_count(m, id, step_id) + 1,
               max_attempts   |-> m.signatures[id].max_attempts ]

\* DetourMatcher.check_attempt_limit
check_attempt_limit(m, signature_id, step_id) ==
  IF ~m.signatures[signature_id].registered
  THEN TRUE
  ELSE IF m.attempt_tracker[<< step_id, signature_id >>] = NoAttempt
       THEN FALSE
       ELSE m.attempt_tracker[<< step_id, signature_id >>] >= m.signatures[signature_id].max_attempts

\* should_detour: the match, unless nothing matched or the matched
\* signature's limit is reached.
should_detour(m, forensics, step_id) ==
  LET found == match(m, forensics, step_id)
  IN IF ~found.matched
     THEN NoMatch
     ELSE IF check_attempt_limit(m, found.signature_id, step_id)
          THEN NoMatch
          ELSE found

\* DetourMatcher.record_attempt
record_attempt(m, signature_id, step_id) ==
  [m EXCEPT !.attempt_tracker[<< step_id, signature_id >>] =
              get_attempt_count(m, signature_id, step_id) + 1]

dmFrame == << replayVars, apiVars, ck, ih, cb, pt, sc, ml, ex, bs, scent, tc, lp >>

InitDm == dm = NewDetourMatcher

\* register_signature(FailureSignature("custom", max_attempts = n, priority = 50))
RegisterSignature ==
  /\ ~dm.signatures["custom"].registered
  /\ \E n \in CustomMaxAttempts :
       dm' = [dm EXCEPT !.signatures["custom"] =
                [registered |-> TRUE, max_attempts |-> n, priority |-> 50]]
  /\ UNCHANGED dmFrame

\* check_for_detour(forensics, step_id, return_step): should_detour, then
\* record_detour_attempt and the DETOUR decision with return_to filled in.
CheckForDetour ==
  /\ dm.calls < MaxChecks
  /\ \E step_id \in DetourSteps, forensics \in SUBSET SignatureIds :
       LET found == should_detour(dm, forensics, step_id)
           k == << step_id, found.signature_id >>
           asked == [NoAnswer EXCEPT !.step_id = step_id, !.forensics = forensics]
       IN IF ~found.matched
          THEN dm' = [dm EXCEPT !.calls = @ + 1, !.answer = [asked EXCEPT !.decision = "none"]]
          ELSE dm' = [record_attempt(dm, found.signature_id, step_id) EXCEPT
                        !.calls = @ + 1,
                        !.issued[k] = @ + 1,
                        !.answer = [asked EXCEPT
                                      !.decision = "DETOUR",
                                      !.detour_id = found.signature_id,
                                      !.attempt_number = found.attempt_number,
                                      !.max_attempts = found.max_attempts,
                                      !.attempts_before =
                                         get_attempt_count(dm, found.signature_id, step_id),
                                      !.return_to = step_id]]
  /\ UNCHANGED dmFrame

\* reset_attempts(step_id) and reset_attempts()
ResetAttempts ==
  /\ dm.calls < MaxChecks
  /\ \E steps \in {{s} : s \in DetourSteps} \cup {DetourSteps} :
       dm' = [dm EXCEPT
                !.calls = @ + 1,
                !.attempt_tracker = [k \in AttemptKeys |->
                                       IF k[1] \in steps THEN NoAttempt ELSE @[k]],
                !.issued = [k \in AttemptKeys |-> IF k[1] \in steps THEN 0 ELSE @[k]]]
  /\ UNCHANGED dmFrame

NextDetour == RegisterSignature \/ CheckForDetour \/ ResetAttempts

\* ---- CheckpointManager (checkpoint_resume.py) ----

MaxReceipts == 2

\* step_id values found in receipts, and what _extract_step_index makes of
\* them: "step-N" gives N, a decimal string gives its value, anything else 0.
ReceiptStepIds == {"step-0", "1", "implement"}

extract_step_index(step_id) ==
  CASE step_id = "step-0" -> 0
    [] step_id = "1"      -> 1
    [] OTHER              -> 0

\* What a receipt file holds: text that does not parse ("corrupt"), or a
\* receipt with this status.
ReceiptContents == {"corrupt", "succeeded", "failed", "interrupted"}

\* The step's handoff envelope: the step produced none, it produced one and
\* the file is there, or it produced one and the file is missing.
EnvelopeStates == {"none", "present", "missing"}

\* One receipt file of the flow with what else the run has about its step:
\* logged says whether step_completed for the step is in events.jsonl.
ReceiptFiles ==
  [step_id : ReceiptStepIds, content : ReceiptContents,
   envelope : EnvelopeStates, logged : BOOLEAN]

NoCheckpoint ==
  [loaded |-> FALSE, step_id |-> "", step_index |-> 0, status |-> "unknown",
   has_envelope |-> FALSE]

\* CheckpointManager._load_checkpoint_from_receipt
load_checkpoint_from_receipt(f) ==
  IF f.content = "corrupt"
  THEN NoCheckpoint
  ELSE [loaded       |-> TRUE,
        step_id      |-> f.step_id,
        step_index   |-> extract_step_index(f.step_id),
        status       |-> f.content,
        has_envelope |-> f.envelope = "present"]

\* list_checkpoints: the receipts that load, in the order list_receipts gave.
RECURSIVE list_loaded(_)
list_loaded(files) ==
  IF files = << >>
  THEN << >>
  ELSE LET c == load_checkpoint_from_receipt(Head(files))
       IN IF c.loaded
          THEN << c >> \o list_loaded(Tail(files))
          ELSE list_loaded(Tail(files))

\* get_last_checkpoint: list_checkpoints sorts by step_index with a stable
\* sort and the last element is taken, which is the latest listed among the
\* checkpoints of highest step_index.
get_last_checkpoint(files) ==
  LET cs == list_loaded(files)
  IN IF cs = << >>
     THEN NoCheckpoint
     ELSE LET i == CHOOSE j \in 1..Len(cs) :
                     /\ \A k \in 1..Len(cs) : cs[k].step_index <= cs[j].step_index
                     /\ \A k \in (j + 1)..Len(cs) : cs[k].step_index < cs[j].step_index
          IN cs[i]

\* The name find_resume_point gives the step after the last one.
StepName(n) == "step-" \o ToString(n)

\* find_resume_point that retries a failed step at the next index.
find_resume_point_retrying_next(files) ==
  LET last == get_last_checkpoint(files)
  IN IF ~last.loaded
     THEN [action |-> "start_fresh", step_id |-> "step-0", step_index |-> 0, last |-> last]
     ELSE IF last.status = "succeeded"
          THEN [action |-> "continue", step_id |-> StepName(last.step_index + 1),
                step_index |-> last.step_index + 1, last |-> last]
          ELSE [action |-> "retry", step_id |-> StepName(last.step_index + 1),
                step_index |-> last.step_index + 1, last |-> last]

\* CheckpointManager.find_resume_point
find_resume_point(files) ==
  LET last == get_last_checkpoint(files)
  IN IF ~last.loaded
     THEN [action |-> "start_fresh", step_id |-> "step-0", step_index |-> 0, last |-> last]
     ELSE IF last.status = "succeeded"
          THEN [action |-> "continue", step_id |-> StepName(last.step_index + 1),
                step_index |-> last.step_index + 1, last |-> last]
          ELSE [action |-> "retry", step_id |-> last.step_id,
                step_index |-> last.step_index, last |-> last]

NoResumePoint == [action |-> NoVal, step_id |-> NoVal, step_index |-> 0, last |-> NoCheckpoint]

\* Listings of at most n receipt files, one file per step.
RECURSIVE Listings(_)
Listings(n) ==
  IF n = 0
  THEN {<< >>}
  ELSE LET shorter == Listings(n - 1)
       IN shorter \cup
          {Append(l, f) : l \in {x \in shorter : Len(x) = n - 1},
                          f \in ReceiptFiles}

OneFilePerStep(l) == \A i, j \in 1..Len(l) : i # j => l[i].step_id # l[j].step_id

NoDirectory == [files |-> << >>, scanned |-> FALSE, resume |-> NoResumePoint]

ckFrame == << replayVars, apiVars, dm, ih, cb, pt, sc, ml, ex, bs, scent, tc, lp >>

InitCk == ck = NoDirectory

\* The run leaves a flow directory behind (a crash can leave any of it).
LeaveDirectory ==
  /\ ~ck.scanned
  /\ ck.files = << >>
  /\ \E l \in Listings(MaxReceipts) :
       /\ l # << >>
       /\ OneFilePerStep(l)
       /\ ck' = [ck EXCEPT !.files = l]
  /\ UNCHANGED ckFrame

\* find_resume_point(run_base, flow_key) on the directory.
FindResumePoint ==
  /\ ~ck.scanned
  /\ ck' = [ck EXCEPT !.scanned = TRUE, !.resume = find_resume_point(ck.files)]
  /\ UNCHANGED ckFrame

NextResume == LeaveDirectory \/ FindResumePoint

\* ---- InterruptHandler (checkpoint_resume.py) ----

MaxArtifacts == 2

SIGINT == 2

SIGTERM == 15

\* How a call of save_interrupt_state ends: it returns; mkdir or open raises
\* (nothing written); or json.dump raises after open("w") created the file.
SaveOutcomes == {"ok", "open_raises", "dump_raises"}

\* The on_interrupt callback given to the handler: none, one that returns,
\* one that raises.
Callbacks == {"none", "returns", "raises"}

NoInterruptState ==
  [step_id |-> NoVal, flow_key |-> NoVal, partial_work |-> NoVal,
   artifacts_flushed |-> 0, can_resume_cleanly |-> FALSE]

NoInterruptFile == [present |-> FALSE, complete |-> FALSE, data |-> NoInterruptState]

\* save_interrupt_state that returns without writing.
save_interrupt_state_skipped(state, ending) == NoInterruptFile

\* save_interrupt_state: interrupt_state.json after the call.
save_interrupt_state(state, ending) ==
  CASE ending = "ok"          -> [present |-> TRUE, complete |-> TRUE, data |-> state]
    [] ending = "dump_raises" -> [present |-> TRUE, complete |-> FALSE, data |-> state]
    [] OTHER                   -> NoInterruptFile

\* The InterruptState _handle_signal builds (artifacts_flushed as the number
\* of paths in the list).
interrupt_state_of(h) ==
  [ step_id            |-> h.step_id,
    flow_key           |-> h.flow_key,
    partial_work       |-> h.partial_work,
    artifacts_flushed  |-> h.artifacts_flushed,
    can_resume_cleanly |-> (h.artifacts_flushed > 0 \/ h.partial_work = NoVal) ]

\* No process yet.
NoProcess ==
  [ pc |-> "none", installed |-> FALSE, original_handlers |-> NoVal,
    step_id |-> NoVal, flow_key |-> NoVal,
    on_interrupt |-> "none", partial_work |-> NoVal, artifacts_flushed |-> 0,
    signum |-> 0, save |-> NoVal, called_back |-> FALSE, exit_code |-> NoInt,
    file |-> NoInterruptFile ]

ihFrame == << replayVars, apiVars, dm, ck, cb, pt, sc, ml, ex, bs, scent, tc, lp >>

InitIh == ih = NoProcess

\* InterruptHandler(run_base, flow_key, step_id, on_interrupt) in a process
\* that starts a step.
NewInterruptHandler ==
  /\ ih.pc = "none"
  /\ \E step_id \in StepIds, callback \in Callbacks :
       ih' = [ih EXCEPT !.pc = "running", !.step_id = step_id, !.flow_key = "build",
                        !.on_interrupt = callback]
  /\ UNCHANGED ihFrame

\* InterruptHandler.install
Install ==
  /\ ih.pc = "running"
  /\ ~ih.installed
  /\ ih' = [ih EXCEPT !.installed = TRUE, !.original_handlers = "default"]
  /\ UNCHANGED ihFrame

\* InterruptHandler.uninstall: the handlers install saved are put back.
Uninstall ==
  /\ ih.pc = "running"
  /\ ih.installed
  /\ ih.original_handlers # NoVal
  /\ ih' = [ih EXCEPT !.installed = FALSE]
  /\ UNCHANGED ihFrame

\* InterruptHandler.set_partial_work
SetPartialWork ==
  /\ ih.pc = "running"
  /\ ih' = [ih EXCEPT !.partial_work = "editing"]
  /\ UNCHANGED ihFrame

\* InterruptHandler.add_flushed_artifact
AddFlushedArtifact ==
  /\ ih.pc = "running"
  /\ ih.artifacts_flushed < MaxArtifacts
  /\ ih' = [ih EXCEPT !.artifacts_flushed = @ + 1]
  /\ UNCHANGED ihFrame

\* InterruptHandler._handle_signal on SIGINT or SIGTERM while the handler is
\* installed: build the state, try to save it (an exception is logged and
\* dropped), call on_interrupt (likewise), os._exit(128 + signum).
HandleSignal ==
  /\ ih.pc = "running"
  /\ ih.installed
  /\ \E signum \in {SIGINT, SIGTERM}, ending \in SaveOutcomes :
       ih' = [ih EXCEPT
                !.pc = "exited",
                !.signum = signum,
                !.save = ending,
                !.file = save_interrupt_state(interrupt_state_of(ih), ending),
                !.called_back = ih.on_interrupt # "none",
                !.exit_code = 128 + signum]
  /\ UNCHANGED ihFrame

NextInterrupt ==
  \/ NewInterruptHandler
  \/ Install
  \/ Uninstall
  \/ SetPartialWork
  \/ AddFlushedArtifact
  \/ HandleSignal

\* ---- ContextBudgetEnforcer (context_budget.py) ----

MaxItems == 2

LOW == 1

MEDIUM == 2

HIGH == 3

CRITICAL == 4

Priorities == {LOW, MEDIUM, HIGH, CRITICAL}

\* A text is taken as a run of `dense` characters that count one token each
\* (symbols, rare characters under a BPE tokenizer) followed by `sparse`
\* characters that count one token per four (the len(text) // 4 estimate).
\* No text here has a space in it.
NewText(dense, sparse) == [dense |-> dense, sparse |-> sparse]

TextLen(t) == t.dense + t.sparse

\* text[:n]
TextPrefix(t, n) ==
  LET k == IF n < TextLen(t) THEN n ELSE TextLen(t)
  IN IF k <= t.dense
     THEN NewText(k, 0)
     ELSE NewText(t.dense, k - t.dense)

\* "\n\n... [TRUNCATED]", 17 characters
Marker == NewText(0, 17)

TextConcat(a, b) == NewText(a.dense + b.dense, a.sparse + b.sparse)

\* ContextBudgetEnforcer.count_tokens with the enforcer's token counter
count_tokens(t) ==
  IF TextLen(t) = 0 THEN 0 ELSE t.dense + (t.sparse \div 4)

\* ContentItem(key, content, priority) with tokens left at 0
NewContentItem(key, content, priority) ==
  [ key |-> key, content |-> content, priority |-> priority, tokens |-> 0,
    truncated |-> FALSE, dropped |-> FALSE, original_tokens |-> 0 ]

\* _truncate_item for a max_tokens the marker fits in: the head of the text
\* up to the estimated cut (no space to cut back to), then the marker.  (The
\* notices returned for max_tokens <= 0 and max_tokens <= marker_tokens count
\* 10 and 5 tokens.)
truncate_item(item, max_tokens) ==
  IF max_tokens <= 0
  THEN [item EXCEPT !.content = NewText(0, 32), !.tokens = 10, !.truncated = TRUE,
                    !.dropped = FALSE]
  ELSE LET marker_tokens == count_tokens(Marker)
           available_tokens == max_tokens - marker_tokens
       IN IF available_tokens <= 0
          THEN [item EXCEPT !.content = NewText(0, 11), !.tokens = 5, !.truncated = TRUE,
                            !.dropped = FALSE]
          ELSE LET denom == IF item.tokens > 1 THEN item.tokens ELSE 1
                   estimated_chars == (available_tokens * TextLen(item.content)) \div denom
                   truncated_content == TextConcat(TextPrefix(item.content, estimated_chars),
                                                   Marker)
               IN [item EXCEPT !.content = truncated_content,
                               !.tokens = count_tokens(truncated_content),
                               !.truncated = TRUE,
                               !.dropped = FALSE]

\* _load_by_priority with CRITICAL items handled as the items of its last
\* branch are.
always_loaded_never(priority) == FALSE

\* _load_by_priority: `if item.priority == Priority.CRITICAL`
always_loaded(priority) == priority = CRITICAL

\* sorted(enumerate(items), key = (-priority, index))
sort_by_priority(items) ==
  SelectSeq(items, LAMBDA x : x.priority = CRITICAL)
    \o SelectSeq(items, LAMBDA x : x.priority = HIGH)
    \o SelectSeq(items, LAMBDA x : x.priority = MEDIUM)
    \o SelectSeq(items, LAMBDA x : x.priority = LOW)

\* One turn of the loop of _load_by_priority.
load_item(acc, item, budget) ==
  LET remaining == budget - acc.used_tokens
      load(x) == [acc EXCEPT !.loaded = Append(@, x), !.used_tokens = @ + x.tokens]
      drop    == [acc EXCEPT !.dropped = Append(@, [item EXCEPT !.dropped = TRUE])]
  IN IF always_loaded(item.priority)
     THEN load(item)
     ELSE IF item.priority = HIGH
          THEN IF item.tokens <= remaining
               THEN load(item)
               ELSE IF remaining >= 100
                    THEN load(truncate_item(item, remaining))
                    ELSE drop
          ELSE IF item.priority = MEDIUM
               THEN IF item.tokens <= remaining THEN load(item) ELSE drop
               ELSE IF item.tokens <= remaining /\ 10 * remaining >= budget
                    THEN load(item)
                    ELSE drop

RECURSIVE load_from(_, _, _)
load_from(acc, items, budget) ==
  IF items = << >>
  THEN acc
  ELSE load_from(load_item(acc, Head(items), budget), Tail(items), budget)

\* ContextBudgetEnforcer._load_by_priority
load_by_priority(items, budget) ==
  load_from([loaded |-> << >>, dropped |-> << >>, used_tokens |-> 0],
            sort_by_priority(items), budget)

RECURSIVE sum_tokens(_)
sum_tokens(items) ==
  IF items = << >> THEN 0 ELSE Head(items).tokens + sum_tokens(Tail(items))

\* ContextBudgetEnforcer.enforce
enforce(items, budget) ==
  LET counted == [i \in 1..Len(items) |->
                    IF items[i].tokens = 0
                    THEN [items[i] EXCEPT !.tokens = count_tokens(items[i].content),
                                          !.original_tokens = count_tokens(items[i].content)]
                    ELSE items[i]]
      result == load_by_priority(counted, budget)
  IN [ loaded_items  |-> result.loaded,
       dropped_items |-> result.dropped,
       total_tokens  |-> sum_tokens(result.loaded),
       budget        |-> budget,
       overflow      |-> (Len(result.dropped) > 0
                          \/ \E i \in 1..Len(result.loaded) : result.loaded[i].truncated) ]

\* Texts given to the enforcer: empty, 100 and 300 tokens of plain text, and
\* a text that opens with 200 one-token characters (1200 tokens in all).
BudgetTexts == {NewText(0, 0), NewText(0, 400), NewText(0, 1200), NewText(200, 4000)}

Budgets == {150, 400}

NoBudgetCall ==
  [ called |-> FALSE, items |-> << >>,
    result |-> [loaded_items |-> << >>, dropped_items |-> << >>, total_tokens |-> 0,
                budget |-> 0, overflow |-> FALSE] ]

cbFrame == << replayVars, apiVars, dm, ck, ih, pt, sc, ml, ex, bs, scent, tc, lp >>

InitCb == cb = NoBudgetCall

\* A caller collects one more content item for the step's context.
AddContentItem ==
  /\ ~cb.called
  /\ Len(cb.items) < MaxItems
  /\ \E content \in BudgetTexts, priority \in Priorities :
       cb' = [cb EXCEPT !.items = Append(@, NewContentItem(Len(cb.items) + 1, content, priority))]
  /\ UNCHANGED cbFrame

\* ContextBudgetEnforcer(budget).enforce(items)
Enforce ==
  /\ ~cb.called
  /\ \E budget \in Budgets :
       cb' = [cb EXCEPT !.called = TRUE, !.result = enforce(cb.items, budget)]
  /\ UNCHANGED cbFrame

NextBudget == AddContentItem \/ Enforce

\* ------------------------------------------------------------------------
\* ProgressTracker (progress_tracker.py): stall detection over error
\* signatures

\* Most iterations recorded on one tracker
MaxIterations == 4

\* An error output is its words in order; the words the noise patterns
\* match ("line \d+") are words of their own.
ErrorOutputs ==
  { << "AssertionError", "line 10" >>,
    << "assertionerror", "line 20" >>,
    << "Timeout" >>,
    << >> }

\* str.lower() on the words above
lower(word) ==
  CASE word = "AssertionError" -> "assertionerror"
    [] word = "Timeout" -> "timeout"
    [] OTHER -> word

NOISE_PATTERNS == { "line 10", "line 20" }

lower_all(error_output) ==
  [i \in 1..Len(error_output) |-> lower(error_output[i])]

IsSignal(word) == word \notin NOISE_PATTERNS

\* Lowercase, remove what the noise patterns match, collapse the spaces.
normalize_error_output(error_output) ==
  SelectSeq(lower_all(error_output), IsSignal)

\* sha256(normalized)[:16]: a digest is written as the text it digests, so
\* two signatures are equal exactly when the normalized texts are.
compute_error_signature(error_output) ==
  [prefix |-> "", digest |-> normalize_error_output(error_output)]

\* "SUCCESS_" + sha256(b"success")[:8]
success_sig == [prefix |-> "SUCCESS_", digest |-> << "success" >>]

\* `word in error_output.lower()`
InLower(error_output, word) == Contains(lower_all(error_output), word)

extract_error_category(error_output) ==
  IF InLower(error_output, "assertionerror") THEN "assertion_error"
  ELSE IF InLower(error_output, "timeout") THEN "timeout"
  ELSE "unknown"

StallThresholds == {2, 3}

NoTimestamp == 0

\* ProgressTracker(stall_threshold); `now` is the clock the timestamps are
\* read from, `called` the last method called on the tracker.
NewProgressTracker(stall_threshold) ==
  [ error_signatures |-> << >>, stall_threshold |-> stall_threshold,
    timestamps |-> << >>, categories |-> << >>,
    stall_started_at |-> NoTimestamp, now |-> 0, called |-> "" ]

\* error_signatures[-n:]
LastN(signatures, n) ==
  IF n = 0 THEN signatures
  ELSE SubSeq(signatures, Len(signatures) - n + 1, Len(signatures))

SetOf(signatures) == { signatures[i] : i \in 1..Len(signatures) }

\* is_stalled looking at the last signature only
is_stalled_on_last(tracker) ==
  IF Len(tracker.error_signatures) < tracker.stall_threshold THEN FALSE
  ELSE Cardinality(SetOf(LastN(tracker.error_signatures, 1))) = 1

is_stalled(tracker) ==
  IF Len(tracker.error_signatures) < tracker.stall_threshold THEN FALSE
  ELSE Cardinality(SetOf(LastN(tracker.error_signatures, tracker.stall_threshold))) = 1

RECURSIVE count_back(_, _)
count_back(signatures, last_sig) ==
  IF signatures = << >> THEN 0
  ELSE IF signatures[Len(signatures)] # last_sig THEN 0
  ELSE 1 + count_back(SubSeq(signatures, 1, Len(signatures) - 1), last_sig)

get_stall_count(tracker) ==
  IF tracker.error_signatures = << >> THEN 0
  ELSE count_back(tracker.error_signatures,
                  tracker.error_signatures[Len(tracker.error_signatures)])

\* A float quotient unique / len(recent), kept as its two integers
Ratio(num, den) == [num |-> num, den |-> den]

Min(a, b) == IF a < b THEN a ELSE b

\* get_velocity over the whole history instead of the recent window
get_velocity_whole_history(tracker) ==
  IF Len(tracker.error_signatures) < 2 THEN Ratio(1, 1)
  ELSE Ratio(Cardinality(SetOf(tracker.error_signatures)), Len(tracker.error_signatures))

get_velocity(tracker) ==
  IF Len(tracker.error_signatures) < 2 THEN Ratio(1, 1)
  ELSE LET window == Min(Len(tracker.error_signatures), tracker.stall_threshold)
           recent == LastN(tracker.error_signatures, window)
       IN  Ratio(Cardinality(SetOf(recent)), Len(recent))

\* get_stall_info escalating as soon as the tracker is stalled
get_stall_info_escalating_at_once(tracker) ==
  [ is_stalled |-> is_stalled(tracker),
    stall_count |-> get_stall_count(tracker),
    velocity |-> get_velocity(tracker),
    total_iterations |-> Len(tracker.error_signatures),
    unique_signatures |-> Cardinality(SetOf(tracker.error_signatures)),
    stall_started_at |-> tracker.stall_started_at,
    recommendation |->
      IF ~is_stalled(tracker) THEN "continue"
      ELSE IF get_stall_count(tracker) >= tracker.stall_threshold THEN "escalate"
      ELSE "investigate" ]

get_stall_info(tracker) ==
  [ is_stalled |-> is_stalled(tracker),
    stall_count |-> get_stall_count(tracker),
    velocity |-> get_velocity(tracker),
    total_iterations |-> Len(tracker.error_signatures),
    unique_signatures |-> Cardinality(SetOf(tracker.error_signatures)),
    stall_started_at |-> tracker.stall_started_at,
    recommendation |->
      IF ~is_stalled(tracker) THEN "continue"
      ELSE IF get_stall_count(tracker) >= tracker.stall_threshold * 2 THEN "escalate"
      ELSE "investigate" ]

record_iteration(tracker, error_output) ==
  LET appended ==
        [tracker EXCEPT
           !.error_signatures = Append(@, compute_error_signature(error_output)),
           !.now = @ + 1,
           !.timestamps = Append(@, tracker.now + 1),
           !.categories = Append(@, extract_error_category(error_output)),
           !.called = "record_iteration"]
      stall_count == get_stall_count(appended)
  IN  IF is_stalled(appended) /\ appended.stall_started_at = NoTimestamp
      THEN IF /\ stall_count >= appended.stall_threshold
              /\ Len(appended.timestamps) >= stall_count
           THEN [appended EXCEPT !.stall_started_at =
                   appended.timestamps[Len(appended.timestamps) - stall_count + 1]]
           ELSE appended
      ELSE IF ~is_stalled(appended)
      THEN [appended EXCEPT !.stall_started_at = NoTimestamp]
      ELSE appended

record_success(tracker) ==
  [tracker EXCEPT
     !.error_signatures = Append(@, success_sig),
     !.now = @ + 1,
     !.timestamps = Append(@, tracker.now + 1),
     !.categories = Append(@, "success"),
     !.stall_started_at = NoTimestamp,
     !.called = "record_success"]

reset(tracker) ==
  [tracker EXCEPT
     !.error_signatures = << >>, !.timestamps = << >>, !.categories = << >>,
     !.stall_started_at = NoTimestamp, !.called = "reset"]

ptFrame == << replayVars, apiVars, dm, ck, ih, cb, sc, ml, ex, bs, scent, tc, lp >>

\* ProgressTracker(): the default threshold
InitPt == pt = NewProgressTracker(3)

\* create_tracker(stall_threshold)
CreateTracker ==
  /\ pt.called = ""
  /\ \E stall_threshold \in StallThresholds :
       pt' = [NewProgressTracker(stall_threshold) EXCEPT !.called = "create_tracker"]
  /\ UNCHANGED ptFrame

RecordIteration ==
  /\ pt.now < MaxIterations
  /\ \E error_output \in ErrorOutputs : pt' = record_iteration(pt, error_output)
  /\ UNCHANGED ptFrame

RecordSuccess ==
  /\ pt.now < MaxIterations
  /\ pt' = record_success(pt)
  /\ UNCHANGED ptFrame

Reset ==
  /\ pt.called # "reset"
  /\ pt' = reset(pt)
  /\ UNCHANGED ptFrame

NextProgress == CreateTracker \/ RecordIteration \/ RecordSuccess \/ Reset

\* ------------------------------------------------------------------------
\* SidequestCatalog (sidequest_catalog.py): the menu of applicable
\* sidequests and the usage counts that bound it

\* Most record_usage calls on one catalog
MaxUsages == 3

\* run_id = None
NoRun == ""

RunIds == {NoRun, "run-1", "run-2"}

TriggerCondition(condition_type, field, operator, value, pattern) ==
  [condition_type |-> condition_type, field |-> field, operator |-> operator,
   value |-> value, pattern |-> pattern]

\* Two entries of DEFAULT_SIDEQUESTS, in the order of the catalog's dict
\* (clarifier keeps the default max_uses_per_run = 3).
CatalogSidequests ==
  << [sidequest_id |-> "clarifier",
      triggers |-> << TriggerCondition("field_check", "has_ambiguity", "equals", 1, ""),
                      TriggerCondition("stall", "stall_count", "gte", 2, "") >>,
      trigger_mode |-> "any", priority |-> 70, max_uses_per_run |-> 3],
     [sidequest_id |-> "security-audit",
      triggers |-> << TriggerCondition("path_pattern", "", "equals", 0, "auth/**"),
                      TriggerCondition("path_pattern", "", "equals", 0, "**/secret*") >>,
      trigger_mode |-> "any", priority |-> 90, max_uses_per_run |-> 1] >>

SidequestIds == { CatalogSidequests[i].sidequest_id : i \in 1..Len(CatalogSidequests) }

ChangedPaths == {"auth/login.py", "README.md"}

\* fnmatch.fnmatch(path, pattern) on the paths and patterns above
fnmatch(path, pattern) == path = "auth/login.py" /\ pattern = "auth/**"

\* A routing context: has_ambiguity (True is 1), stall_signals.stall_count,
\* changed_paths
Contexts ==
  [has_ambiguity : {0, 1}, stall_count : {0, 2}, changed_paths : SUBSET ChangedPaths]

field_check(operator, value, expected) ==
  CASE operator = "equals" -> value = expected
    [] operator = "not_equals" -> value # expected
    [] operator = "gt" -> value > expected
    [] operator = "lt" -> value < expected
    [] operator = "gte" -> value >= expected
    [] operator = "lte" -> value <= expected
    [] OTHER -> FALSE

evaluate_trigger(trigger, context) ==
  CASE trigger.condition_type = "field_check" ->
         IF trigger.field = "has_ambiguity"
         THEN field_check(trigger.operator, context.has_ambiguity, trigger.value)
         ELSE FALSE
    [] trigger.condition_type = "stall" ->
         IF trigger.field = "stall_count"
         THEN field_check(trigger.operator, context.stall_count, trigger.value)
         ELSE FALSE
    [] trigger.condition_type = "path_pattern" ->
         \E path \in context.changed_paths : fnmatch(path, trigger.pattern)
    [] OTHER -> FALSE

\* f"{run_id}:{sidequest_id}" if run_id else sidequest_id
usage_key(run_id, sidequest_id) ==
  IF run_id # NoRun THEN run_id \o ":" \o sidequest_id ELSE sidequest_id

UsageKeys == { usage_key(r, q) : r \in RunIds, q \in SidequestIds }

\* The usage limit tested one use late
usage_limit_reached_late(current_usage, max_uses_per_run) ==
  current_usage > max_uses_per_run

\* `if current_usage >= sq.max_uses_per_run: continue`
usage_limit_reached(current_usage, max_uses_per_run) ==
  current_usage >= max_uses_per_run

triggers_match(sq, context) ==
  IF sq.trigger_mode = "all"
  THEN \A i \in 1..Len(sq.triggers) : evaluate_trigger(sq.triggers[i], context)
  ELSE \E i \in 1..Len(sq.triggers) : evaluate_trigger(sq.triggers[i], context)

\* sorted(applicable, key=lambda s: -s.priority): stable
RECURSIVE sorted_by_priority(_, _)
sorted_by_priority(applicable, priorities) ==
  IF priorities = {} THEN << >>
  ELSE LET top == CHOOSE p \in priorities : \A q \in priorities : q <= p
       IN  SelectSeq(applicable, LAMBDA s : s.priority = top)
             \o sorted_by_priority(applicable, priorities \ {top})

get_applicable_sidequests(catalog, context, run_id) ==
  LET passes(sq) ==
        /\ ~usage_limit_reached(catalog.usage_counts[usage_key(run_id, sq.sidequest_id)],
                                sq.max_uses_per_run)
        /\ triggers_match(sq, context)
      applicable == SelectSeq(catalog.sidequests, passes)
  IN  sorted_by_priority(applicable,
                         { applicable[i].priority : i \in 1..Len(applicable) })

record_usage(catalog, sidequest_id, run_id) ==
  [catalog EXCEPT !.usage_counts[usage_key(run_id, sidequest_id)] = @ + 1]

\* SidequestCatalog(sidequests). usage_counts holds 0 for an absent key;
\* `recorded` counts the record_usage calls per run and sidequest, `asked`
\* and `answer` keep the last get_applicable_sidequests call.
NewSidequestCatalog ==
  [ sidequests |-> CatalogSidequests,
    usage_counts |-> [k \in UsageKeys |-> 0],
    recorded |-> [r \in RunIds |-> [q \in SidequestIds |-> 0]],
    uses |-> 0,
    asked |-> FALSE, asked_run |-> NoRun, answer |-> << >> ]

scFrame == << replayVars, apiVars, dm, ck, ih, cb, pt, ml, ex, bs, scent, tc, lp >>

InitSc == sc = NewSidequestCatalog

RecordUsage ==
  /\ sc.uses < MaxUsages
  /\ \E run_id \in RunIds, sidequest_id \in SidequestIds :
       sc' = [record_usage(sc, sidequest_id, run_id) EXCEPT
                !.recorded[run_id][sidequest_id] = @ + 1,
                !.uses = @ + 1,
                !.asked = FALSE, !.asked_run = NoRun, !.answer = << >>]
  /\ UNCHANGED scFrame

GetApplicableSidequests ==
  /\ \E run_id \in RunIds, context \in Contexts :
       sc' = [sc EXCEPT !.asked = TRUE, !.asked_run = run_id,
                        !.answer = get_applicable_sidequests(sc, context, run_id)]
  /\ UNCHANGED scFrame

NextCatalog == RecordUsage \/ GetApplicableSidequests

\* ------------------------------------------------------------------------
\* Microloop exit decision (routing_helpers.py)

\* Largest iteration count and iteration limit of a microloop
MaxLoopIterations == 3

LoopStatuses == {"VERIFIED", "verified", "UNVERIFIED", "complete", ""}

LoopSuccessValues == { << "VERIFIED" >>, << "COMPLETE", "DONE" >> }

\* can_further_iteration_help: strings, and "True", "False", "None" for the
\* Python values True, False, None
CanHelpValues == {"yes", "no", "YES", "0", "maybe", "True", "False", "None"}

\* str.upper() on the statuses and success values above
upper(value) ==
  CASE value = "verified" -> "VERIFIED"
    [] value = "complete" -> "COMPLETE"
    [] OTHER -> value

\* str.lower() on the can_further_iteration_help strings above and on the
\* words of scent-trail decisions
lower_case(value) ==
  CASE value = "YES" -> "yes"
    [] value = "Use" -> "use"
    [] OTHER -> value

MicroloopState(current_iteration, max_iterations, status, can_further_iteration_help, success_values) ==
  [ current_iteration |-> current_iteration, max_iterations |-> max_iterations,
    status |-> status, can_further_iteration_help |-> can_further_iteration_help,
    success_values |-> success_values ]

is_status_success(state) ==
  LET status_upper == IF state.status # "" THEN upper(state.status) ELSE ""
  IN  \E i \in 1..Len(state.success_values) :
        status_upper = upper(state.success_values[i])

is_at_max_iterations(state) == state.current_iteration >= state.max_iterations

normalize_can_help(value) ==
  IF value = "None" THEN TRUE
  ELSE IF value = "True" THEN TRUE
  ELSE IF value = "False" THEN FALSE
  ELSE lower_case(value) \in {"yes", "true", "1"}

can_help(state) == normalize_can_help(state.can_further_iteration_help)

\* should_exit_microloop asking the critic before the safety fuse
should_exit_microloop_help_first(state) ==
  IF is_status_success(state) THEN << TRUE, "status_verified" >>
  ELSE IF ~can_help(state) THEN << TRUE, "no_further_help" >>
  ELSE IF is_at_max_iterations(state) THEN << TRUE, "max_iterations_reached" >>
  ELSE << FALSE, "" >>

should_exit_microloop(state) ==
  IF is_status_success(state) THEN << TRUE, "status_verified" >>
  ELSE IF is_at_max_iterations(state) THEN << TRUE, "max_iterations_reached" >>
  ELSE IF ~can_help(state) THEN << TRUE, "no_further_help" >>
  ELSE << FALSE, "" >>

\* No MicroloopState built yet
NoMicroloop ==
  [ built |-> FALSE, decided |-> FALSE,
    state |-> MicroloopState(0, 1, "", "yes", << "VERIFIED" >>),
    result |-> << FALSE, "" >> ]

mlFrame == << replayVars, apiVars, dm, ck, ih, cb, pt, sc, ex, bs, scent, tc, lp >>

InitMl == ml = NoMicroloop

\* MicroloopState(current_iteration, max_iterations, status, ...)
NewMicroloopState ==
  /\ ~ml.built
  /\ \E current_iteration \in 0..MaxLoopIterations,
        max_iterations \in 1..MaxLoopIterations,
        status \in LoopStatuses,
        can_further_iteration_help \in CanHelpValues,
        success_values \in LoopSuccessValues :
       ml' = [ml EXCEPT !.built = TRUE,
                        !.state = MicroloopState(current_iteration, max_iterations, status,
                                                 can_further_iteration_help, success_values)]
  /\ UNCHANGED mlFrame

\* should_exit_microloop(state)
ShouldExitMicroloop ==
  /\ ml.built
  /\ ~ml.decided
  /\ ml' = [ml EXCEPT !.decided = TRUE, !.result = should_exit_microloop(ml.state)]
  /\ UNCHANGED mlFrame

NextMicroloop == NewMicroloopState \/ ShouldExitMicroloop

\* ------------------------------------------------------------------------
\* Structured output extraction (structured_output.py): query, extract the
\* JSON, validate it against the schema, reprompt

\* Largest max_attempts of an extraction
MaxAttempts == 2

\* JSON values as Python holds them after json.loads: the type, the number
\* (True is 1) and the string
JInt(n) == [t |-> "int", n |-> n, s |-> ""]
JBool(b) == [t |-> "bool", n |-> IF b THEN 1 ELSE 0, s |-> ""]
JStr(s) == [t |-> "str", n |-> 0, s |-> s]
JNull == [t |-> "null", n |-> 0, s |-> ""]
\* a key the object does not have
Absent == [t |-> "absent", n |-> 0, s |-> ""]

NoConstraint == -1

\* A property schema: type, enum (has_enum), minimum (has_minimum), nullable
PropSchema(type, has_enum, enum, has_minimum, minimum) ==
  [type |-> type, has_enum |-> has_enum, enum |-> enum,
   has_minimum |-> has_minimum, minimum |-> minimum, nullable |-> FALSE]

\* {"type": "object", "required": ["count", "status"], "properties":
\*   {"count": {"type": "integer", "minimum": 0},
\*    "status": {"type": "string", "enum": ["ok", "bad"]}}}
StepSchema ==
  [ required |-> << "count", "status" >>,
    properties |->
      [ count |-> PropSchema("integer", FALSE, {}, TRUE, 0),
        status |-> PropSchema("string", TRUE, {"ok", "bad"}, FALSE, NoConstraint) ] ]

FieldNames == << "count", "status" >>

JsonObjects ==
  [ count : {Absent, JInt(1), JInt(0 - 1), JBool(TRUE), JNull, JStr("1")},
    status : {Absent, JStr("ok"), JStr("zzz")} ]

NoObject == [count |-> Absent, status |-> Absent]

\* What query_fn gives on one call: it raises, or it returns a text that is
\* empty, prose without JSON, a JSON list, or a text holding a JSON object.
Responses ==
  { [kind |-> k, data |-> NoObject] : k \in {"raises", "empty", "prose", "list"} }
    \cup { [kind |-> "object", data |-> d] : d \in JsonObjects }

\* extract_json_from_text: (data, error_message); found says data is not None
extract_json_from_text(response) ==
  CASE response.kind = "empty" ->
         [found |-> FALSE, data |-> NoObject, error |-> "Empty response received"]
    [] response.kind = "prose" ->
         [found |-> FALSE, data |-> NoObject, error |-> "No valid JSON found in response"]
    [] response.kind = "list" ->
         [found |-> FALSE, data |-> NoObject, error |-> "Expected JSON object, got list"]
    [] OTHER -> [found |-> TRUE, data |-> response.data, error |-> ""]

\* isinstance(value, type_map[expected_type]): a Python bool is an int
isinstance_of(value, expected_type) ==
  CASE expected_type = "string" -> value.t = "str"
    [] expected_type = "number" -> value.t \in {"int", "float", "bool"}
    [] expected_type = "integer" -> value.t \in {"int", "bool"}
    [] expected_type = "boolean" -> value.t = "bool"
    [] expected_type = "null" -> value.t = "null"
    [] OTHER -> FALSE

\* `value not in allowed_values` for an enum of strings
in_enum(value, allowed_values) == value.t = "str" /\ value.s \in allowed_values

\* The errors validate_against_schema adds for one present field.
validate_field(value, prop_schema) ==
  IF value.t = "null"
  THEN IF prop_schema.type = "null" \/ prop_schema.nullable THEN << >>
       ELSE IF prop_schema.type # "" THEN << "cannot be null" >>
       ELSE << >>
  ELSE
    (IF prop_schema.has_enum /\ ~in_enum(value, prop_schema.enum)
     THEN << "not in allowed values" >> ELSE << >>)
    \o (IF prop_schema.type # "" /\ ~isinstance_of(value, prop_schema.type)
        THEN << "expected type" >> ELSE << >>)
    \o (IF /\ prop_schema.type \in {"number", "integer"}
           /\ value.t \in {"int", "float", "bool"}
           /\ prop_schema.has_minimum
           /\ value.n < prop_schema.minimum
        THEN << "less than minimum" >> ELSE << >>)

validate_against_schema(data, schema) ==
  LET missing(name) == IF data[name] = Absent THEN << "required field is missing" >>
                       ELSE << >>
      checked(name) == IF data[name] = Absent THEN << >>
                       ELSE validate_field(data[name], schema.properties[name])
  IN  missing(schema.required[1]) \o missing(schema.required[2])
        \o checked(FieldNames[1]) \o checked(FieldNames[2])

\* The result with a raw_responses list that an earlier result has already
\* written to
NewExtraction_sharing_responses(max_attempts) ==
  [ running |-> TRUE, max_attempts |-> max_attempts,
    success |-> FALSE, data |-> NoObject, has_data |-> FALSE, errors |-> << >>,
    attempts |-> 0, raw_responses |-> << "[QUERY_ERROR]" >>, current_prompt |-> "prompt",
    calls |-> 0 ]

\* ExtractionResult(success=False), with the prompt of the next query and
\* max_attempts; running says the loop has not returned, calls counts the
\* calls of query_fn
NewExtraction(max_attempts) ==
  [ running |-> TRUE, max_attempts |-> max_attempts,
    success |-> FALSE, data |-> NoObject, has_data |-> FALSE, errors |-> << >>,
    attempts |-> 0, raw_responses |-> << >>, current_prompt |-> "prompt",
    calls |-> 0 ]

NoExtraction == [NewExtraction(0) EXCEPT !.running = FALSE]

\* One turn of the loop that leaves no error behind when the JSON does not
\* parse
attempt_forgetting_parse_error(extraction, response, schema) ==
  LET attempt == extraction.attempts
      counted == [extraction EXCEPT !.attempts = attempt + 1, !.calls = @ + 1]
      parsed == extract_json_from_text(response)
      validation_errors == validate_against_schema(parsed.data, schema)
      reprompted(r) == IF attempt < extraction.max_attempts - 1
                       THEN [r EXCEPT !.current_prompt = "reprompt"] ELSE r
      last(r) == IF attempt + 1 >= extraction.max_attempts
                 THEN [r EXCEPT !.running = FALSE] ELSE r
  IN  IF response.kind = "raises"
      THEN last([counted EXCEPT !.errors = << "Query failed" >>,
                                !.raw_responses = Append(@, "[QUERY_ERROR]")])
      ELSE LET heard == [counted EXCEPT !.raw_responses = Append(@, response.kind)]
           IN  IF ~parsed.found
               THEN last(reprompted([heard EXCEPT !.errors = << >>]))
               ELSE IF validation_errors = << >>
               THEN [heard EXCEPT !.success = TRUE, !.data = parsed.data,
                                  !.has_data = TRUE, !.errors = << >>,
                                  !.running = FALSE]
               ELSE last(reprompted([heard EXCEPT !.errors = validation_errors]))

\* One turn of the loop of extract_with_microloop, and the return after the
\* last one.
attempt_once(extraction, response, schema) ==
  LET attempt == extraction.attempts
      counted == [extraction EXCEPT !.attempts = attempt + 1, !.calls = @ + 1]
      parsed == extract_json_from_text(response)
      validation_errors == validate_against_schema(parsed.data, schema)
      reprompted(r) == IF attempt < extraction.max_attempts - 1
                       THEN [r EXCEPT !.current_prompt = "reprompt"] ELSE r
      last(r) == IF attempt + 1 >= extraction.max_attempts
                 THEN [r EXCEPT !.running = FALSE] ELSE r
  IN  IF response.kind = "raises"
      THEN last([counted EXCEPT !.errors = << "Query failed" >>,
                                !.raw_responses = Append(@, "[QUERY_ERROR]")])
      ELSE LET heard == [counted EXCEPT !.raw_responses = Append(@, response.kind)]
           IN  IF ~parsed.found
               THEN last(reprompted([heard EXCEPT !.errors = << parsed.error >>]))
               ELSE IF validation_errors = << >>
               THEN [heard EXCEPT !.success = TRUE, !.data = parsed.data,
                                  !.has_data = TRUE, !.errors = << >>,
                                  !.running = FALSE]
               ELSE last(reprompted([heard EXCEPT !.errors = validation_errors]))

exFrame == << replayVars, apiVars, dm, ck, ih, cb, pt, sc, ml, bs, scent, tc, lp >>

InitEx == ex = NoExtraction

\* extract_with_microloop(prompt, schema, query_fn, max_attempts) is called
ExtractWithMicroloop ==
  /\ ~ex.running
  /\ ex.attempts = 0
  /\ \E max_attempts \in 1..MaxAttempts : ex' = NewExtraction(max_attempts)
  /\ UNCHANGED exFrame

\* query_fn answers: one turn of the loop
Attempt ==
  /\ ex.running
  /\ \E response \in Responses : ex' = attempt_once(ex, response, StepSchema)
  /\ UNCHANGED exFrame

NextExtract == ExtractWithMicroloop \/ Attempt

\* ------------------------------------------------------------------------
\* Boundary scan after a step (boundary_enforcement.py)

\* Files a step may leave changed (git status --porcelain), in the order the
\* scan below visits them
StepFiles == << "src/app.py", ".gitignore", "config/.env", "../outside.txt" >>

\* HEAD of the real repository; "" when git gave nothing
RepoRefs == {"", "aaaa1111", "bbbb2222"}

Violation(type, severity, path) == [type |-> type, severity |-> severity, path |-> path]

\* (repo_root / file_path).resolve() is not under workspace.root()
outside_workspace(file_path) == file_path = "../outside.txt"

\* `protected in file_path` for some path of PROTECTED_PATHS
touches_protected_path(file_path) == file_path = ".gitignore"

\* `pattern in file_path.lower()` for some pattern of SECRET_PATTERNS
matches_secret_pattern(file_path) == file_path = "config/.env"

\* The violations a check finds, file by file.
per_file(changed_files, found(_), made(_)) ==
  LET hit == SelectSeq(StepFiles, LAMBDA f : f \in changed_files /\ found(f))
  IN  [i \in 1..Len(hit) |-> made(hit[i])]

check_write_violations(current) ==
  per_file(current.changed_files, outside_workspace,
           LAMBDA f : Violation("write_outside_workspace", "error", f))

\* _check_shadow_violations rating the moved HEAD as an error
check_shadow_violations_as_error(baseline, current) ==
  IF ~baseline.captured THEN << >>
  ELSE IF /\ current.real_repo_ref # ""
          /\ baseline.real_repo_ref # ""
          /\ current.real_repo_ref # baseline.real_repo_ref
  THEN << Violation("real_repo_modification", "error", "HEAD") >>
  ELSE << >>

check_shadow_violations(baseline, current) ==
  IF ~baseline.captured THEN << >>
  ELSE IF /\ current.real_repo_ref # ""
          /\ baseline.real_repo_ref # ""
          /\ current.real_repo_ref # baseline.real_repo_ref
  THEN << Violation("real_repo_modification", "critical", "HEAD") >>
  ELSE << >>

check_protected_paths(current) ==
  per_file(current.changed_files, touches_protected_path,
           LAMBDA f : Violation("main_branch_mutation", "warning", f))

check_secret_exposure(current) ==
  per_file(current.changed_files, matches_secret_pattern,
           LAMBDA f : Violation("secret_exposure", "warning", f))

\* BoundaryScanner.scan(current_state)
scan(is_shadow, baseline, current) ==
  check_write_violations(current)
    \o (IF is_shadow THEN check_shadow_violations(baseline, current) ELSE << >>)
    \o check_protected_paths(current)
    \o check_secret_exposure(current)

scan_for_violations(is_shadow, before_state, after_state) ==
  scan(is_shadow, before_state, after_state)

HasCritical(violations) ==
  \E i \in 1..Len(violations) : violations[i].severity = "critical"

\* The boundary step of the orchestrator: scan, then halt on a critical
\* violation.
boundary_step(is_shadow, before_state, after_state) ==
  LET violations == scan_for_violations(is_shadow, before_state, after_state)
  IN  [ violations |-> violations,
        raised |-> IF HasCritical(violations) THEN "BoundaryViolationError" ELSE "" ]

WorkspaceState(captured, real_repo_ref, changed_files) ==
  [captured |-> captured, real_repo_ref |-> real_repo_ref, changed_files |-> changed_files]

\* A step about to run: no baseline, nothing changed, nothing scanned
NoBoundaryScan ==
  [ is_shadow |-> FALSE, started |-> FALSE,
    baseline |-> WorkspaceState(FALSE, "", {}),
    current |-> WorkspaceState(TRUE, "", {}),
    scanned |-> FALSE, violations |-> << >>, raised |-> "" ]

bsFrame == << replayVars, apiVars, dm, ck, ih, cb, pt, sc, ml, ex, scent, tc, lp >>

InitBs == bs = NoBoundaryScan

\* The step starts in a real or a shadow workspace; the caller may capture
\* the state before it.
StartStep ==
  /\ ~bs.started
  /\ \E is_shadow \in BOOLEAN, captured \in BOOLEAN, ref \in RepoRefs :
       LET real_repo_ref == IF is_shadow THEN ref ELSE ""
       IN  bs' = [bs EXCEPT !.started = TRUE, !.is_shadow = is_shadow,
                            !.baseline = WorkspaceState(captured,
                                           IF captured THEN real_repo_ref ELSE "", {}),
                            !.current = WorkspaceState(TRUE, real_repo_ref, {})]
  /\ UNCHANGED bsFrame

\* The step changes a file.
StepChangesFile ==
  /\ bs.started /\ ~bs.scanned
  /\ \E i \in 1..Len(StepFiles) :
       /\ StepFiles[i] \notin bs.current.changed_files
       /\ bs' = [bs EXCEPT !.current.changed_files = @ \cup {StepFiles[i]}]
  /\ UNCHANGED bsFrame

\* HEAD of the real repository moves while the step runs in a shadow.
RealRepoMoves ==
  /\ bs.started /\ ~bs.scanned /\ bs.is_shadow
  /\ \E ref \in RepoRefs :
       /\ ref # bs.current.real_repo_ref
       /\ bs' = [bs EXCEPT !.current.real_repo_ref = ref]
  /\ UNCHANGED bsFrame

\* The boundary scan after the step.
BoundaryScan ==
  /\ bs.started /\ ~bs.scanned
  /\ LET outcome_of_step == boundary_step(bs.is_shadow, bs.baseline, bs.current)
     IN  bs' = [bs EXCEPT !.scanned = TRUE,
                          !.violations = outcome_of_step.violations,
                          !.raised = outcome_of_step.raised]
  /\ UNCHANGED bsFrame

NextBoundary == StartStep \/ StepChangesFile \/ RealRepoMoves \/ BoundaryScan

\* ------------------------------------------------------------------------
\* ScentTrail (scent_trail.py): decisions, assumptions, open questions and
\* conflicts of a run

\* Most add_decision, add_assumption, add_open_question and add_conflict
\* calls on one trail
MaxTrailAdds == 3

\* Decision texts, as the words str.split() gives
DecisionTexts ==
  { << "Use", "postgres" >>,
    << "do", "not", "use", "postgres" >>,
    << "use", "redis" >> }

\* The step that takes a decision
StepOfDecision(decision) ==
  IF Len(decision) = 4 THEN "build-step-2" ELSE "plan-step-1"

\* Prior decisions a step reports a conflict with
ConflictingDecisions == { << "Use", "postgres" >>, << "use", "redis" >> }

AssumptionTexts == {"users are authenticated"}

QuestionTexts == {"which region?"}

DecisionRecord(step_id, flow_key, decision, timestamp) ==
  [step_id |-> step_id, flow_key |-> flow_key, decision |-> decision,
   rationale |-> "because", confidence |-> "MEDIUM", timestamp |-> timestamp]

ActiveAssumption(assumption, made_at) ==
  [assumption |-> assumption, made_at |-> made_at, status |-> "ACTIVE",
   validated_at |-> "", invalidation_reason |-> ""]

ConflictRecord(prior_decision, current_finding, detected_at) ==
  [prior_decision |-> prior_decision, current_finding |-> current_finding,
   recommendation |-> "escalate", impact |-> "rework", detected_at |-> detected_at,
   resolved |-> FALSE, resolution |-> ""]

\* ScentTrail(run_id, flow_objective). `adds` is the clock the timestamps are
\* read from (it ticks with every record added), `checked` keeps the last
\* check_for_conflicts call on the trail as it is.
NotChecked ==
  [called |-> FALSE, new_decision |-> << >>, potential_conflicts |-> << >>, logged |-> 0]

NewScentTrail ==
  [ decisions |-> << >>, assumptions_in_effect |-> << >>, open_questions |-> << >>,
    conflicts |-> << >>, last_updated |-> 0, adds |-> 0,
    checked |-> NotChecked ]

update_timestamp(trail) == [trail EXCEPT !.last_updated = trail.adds]

add_decision(trail, step_id, flow_key, decision) ==
  update_timestamp(
    [trail EXCEPT !.decisions =
       Append(@, DecisionRecord(step_id, flow_key, decision, trail.adds))])

add_assumption(trail, assumption, made_at) ==
  update_timestamp(
    [trail EXCEPT !.assumptions_in_effect = Append(@, ActiveAssumption(assumption, made_at))])

\* Index of the first record the loop of a method stops at, 0 when none
FirstIndex(records, stops(_)) ==
  IF \E i \in 1..Len(records) : stops(records[i])
  THEN CHOOSE i \in 1..Len(records) :
         stops(records[i]) /\ \A j \in 1..(i - 1) : ~stops(records[j])
  ELSE 0

\* validate_assumption taking the first record of that text whatever its
\* status
validate_assumption_any_status(trail, assumption, validated_at) ==
  LET i == FirstIndex(trail.assumptions_in_effect, LAMBDA r : r.assumption = assumption)
  IN  IF i = 0 THEN trail
      ELSE update_timestamp(
             [trail EXCEPT !.assumptions_in_effect[i].status = "VALIDATED",
                           !.assumptions_in_effect[i].validated_at = validated_at])

\* ScentTrail.validate_assumption: the first ACTIVE record of that text
validate_assumption(trail, assumption, validated_at) ==
  LET i == FirstIndex(trail.assumptions_in_effect,
                      LAMBDA r : r.assumption = assumption /\ r.status = "ACTIVE")
  IN  IF i = 0 THEN trail
      ELSE update_timestamp(
             [trail EXCEPT !.assumptions_in_effect[i].status = "VALIDATED",
                           !.assumptions_in_effect[i].validated_at = validated_at])

invalidate_assumption(trail, assumption, reason) ==
  LET i == FirstIndex(trail.assumptions_in_effect,
                      LAMBDA r : r.assumption = assumption /\ r.status = "ACTIVE")
  IN  IF i = 0 THEN trail
      ELSE update_timestamp(
             [trail EXCEPT !.assumptions_in_effect[i].status = "INVALIDATED",
                           !.assumptions_in_effect[i].invalidation_reason = reason])

add_open_question(trail, question) ==
  IF \E i \in 1..Len(trail.open_questions) : trail.open_questions[i] = question
  THEN trail
  ELSE update_timestamp([trail EXCEPT !.open_questions = Append(@, question)])

\* list.remove(question): the first occurrence
resolve_open_question(trail, question) ==
  LET i == FirstIndex(trail.open_questions, LAMBDA q : q = question)
  IN  IF i = 0 THEN trail
      ELSE update_timestamp(
             [trail EXCEPT !.open_questions =
                SubSeq(@, 1, i - 1) \o SubSeq(@, i + 1, Len(@))])

add_conflict(trail, prior_decision, current_finding, detected_at) ==
  update_timestamp(
    [trail EXCEPT !.conflicts =
       Append(@, ConflictRecord(prior_decision, current_finding, detected_at))])

\* resolve_conflict taking the resolved record off the list
resolve_conflict_dropping(trail, prior_decision, resolution) ==
  LET i == FirstIndex(trail.conflicts,
                      LAMBDA r : r.prior_decision = prior_decision /\ ~r.resolved)
  IN  IF i = 0 THEN trail
      ELSE update_timestamp(
             [trail EXCEPT !.conflicts =
                SubSeq(@, 1, i - 1) \o SubSeq(@, i + 1, Len(@))])

resolve_conflict(trail, prior_decision, resolution) ==
  LET i == FirstIndex(trail.conflicts,
                      LAMBDA r : r.prior_decision = prior_decision /\ ~r.resolved)
  IN  IF i = 0 THEN trail
      ELSE update_timestamp(
             [trail EXCEPT !.conflicts[i].resolved = TRUE,
                           !.conflicts[i].resolution = resolution])

\* set(text.lower().split())
words_of(text) == { lower_case(text[i]) : i \in 1..Len(text) }

negation_words == {"not", "no", "don't", "won't", "instead", "rather", "reject"}

\* check_for_conflicts: potential_conflicts is returned as it was created;
\* an overlap with a negation is only logged.
check_for_conflicts(trail, new_decision) ==
  LET new_words == words_of(new_decision)
      flagged ==
        { i \in 1..Len(trail.decisions) :
            LET existing_words == words_of(trail.decisions[i].decision)
            IN  /\ new_words \cap existing_words # {}
                /\ \/ new_words \cap negation_words # {}
                   \/ existing_words \cap negation_words # {} }
  IN  [potential_conflicts |-> << >>, logged |-> Cardinality(flagged)]

scentFrame == << replayVars, apiVars, dm, ck, ih, cb, pt, sc, ml, ex, bs, tc, lp >>

InitScent == scent = NewScentTrail

\* The clock ticks for a record to be added; the trail is no longer the one
\* last checked.
Tick(trail) == [trail EXCEPT !.adds = @ + 1, !.checked = NotChecked]

Unchecked(trail) == [trail EXCEPT !.checked = NotChecked]

AddDecision ==
  /\ scent.adds < MaxTrailAdds
  /\ \E decision \in DecisionTexts :
       scent' = add_decision(Tick(scent), StepOfDecision(decision), "build", decision)
  /\ UNCHANGED scentFrame

AddAssumption ==
  /\ scent.adds < MaxTrailAdds
  /\ \E assumption \in AssumptionTexts :
       scent' = add_assumption(Tick(scent), assumption, "plan-step-1")
  /\ UNCHANGED scentFrame

ValidateAssumption ==
  /\ \E assumption \in AssumptionTexts :
       scent' = validate_assumption(Unchecked(scent), assumption, "build-step-2")
  /\ UNCHANGED scentFrame

InvalidateAssumption ==
  /\ \E assumption \in AssumptionTexts :
       scent' = invalidate_assumption(Unchecked(scent), assumption, "measured")
  /\ UNCHANGED scentFrame

AddOpenQuestion ==
  /\ scent.adds < MaxTrailAdds
  /\ \E question \in QuestionTexts :
       scent' = add_open_question(Tick(scent), question)
  /\ UNCHANGED scentFrame

ResolveOpenQuestion ==
  /\ \E question \in QuestionTexts :
       scent' = resolve_open_question(Unchecked(scent), question)
  /\ UNCHANGED scentFrame

AddConflict ==
  /\ scent.adds < MaxTrailAdds
  /\ \E prior_decision \in ConflictingDecisions :
       scent' = add_conflict(Tick(scent), prior_decision, "finding", "build-step-2")
  /\ UNCHANGED scentFrame

ResolveConflict ==
  /\ \E prior_decision \in ConflictingDecisions :
       scent' = resolve_conflict(Unchecked(scent), prior_decision, "kept")
  /\ UNCHANGED scentFrame

CheckForConflicts ==
  /\ \E new_decision \in DecisionTexts :
       LET answer == check_for_conflicts(scent, new_decision)
       IN  scent' = [scent EXCEPT !.checked =
                    [called |-> TRUE, new_decision |-> new_decision,
                     potential_conflicts |-> answer.potential_conflicts,
                     logged |-> answer.logged]]
  /\ UNCHANGED scentFrame

NextTrail ==
  \/ AddDecision \/ AddAssumption \/ ValidateAssumption \/ InvalidateAssumption
  \/ AddOpenQuestion \/ ResolveOpenQuestion \/ AddConflict \/ ResolveConflict
  \/ CheckForConflicts

\* ------------------------------------------------------------------------
\* NormalizedToolCall and its dictionary form (types/tool_call.py)

ToolNames == {"Bash", "Read"}

\* tool_input dictionaries, passed through as they are
ToolInputs == {"{}", "{command: ls}"}

ToolOutputs == {NoVal, "total 42"}

Durations == {0, 150}

\* blocked_reason: None, the empty string, a reason
BlockedReasons == {NoVal, "", "policy"}

ToolSources == {"sdk", "unknown"}

\* timestamp argument: None or an ISO string
Timestamps == {NoVal, "2025-01-01T00:00:00Z"}

\* What datetime.now(timezone.utc).isoformat() + "Z" gives
NowIso == "<now>Z"

\* The dataclass constructor followed by __post_init__
NormalizedToolCall(tool_name, tool_input, tool_output, success, duration_ms, blocked, blocked_reason, source, timestamp) ==
  [ tool_name |-> tool_name, tool_input |-> tool_input, tool_output |-> tool_output,
    success |-> success, duration_ms |-> duration_ms, blocked |-> blocked,
    blocked_reason |-> blocked_reason, source |-> source,
    timestamp |-> IF timestamp = NoVal THEN NowIso ELSE timestamp ]

\* Python truth value of an optional string
Truthy(text) == text # NoVal /\ text # ""

\* A dictionary: the keys it has, and the value under each of them
\* (`values` of a key it does not have is not read)
to_dict(call) ==
  [ keys |->
      {"tool_name", "tool_input", "success", "duration_ms", "source", "timestamp"}
      \cup (IF call.tool_output # NoVal THEN {"tool_output"} ELSE {})
      \cup (IF call.blocked THEN {"blocked"} ELSE {})
      \cup (IF call.blocked /\ Truthy(call.blocked_reason) THEN {"blocked_reason"} ELSE {}),
    values |->
      [ tool_name |-> call.tool_name, tool_input |-> call.tool_input,
        success |-> call.success, duration_ms |-> call.duration_ms,
        source |-> call.source, timestamp |-> call.timestamp,
        tool_output |-> call.tool_output, blocked |-> TRUE,
        blocked_reason |-> call.blocked_reason ] ]

\* dict.get(key, default)
dict_get(data, key, default) ==
  IF key \in data.keys THEN data.values[key] ELSE default

from_dict(data) ==
  NormalizedToolCall(
    dict_get(data, "tool_name", "unknown"),
    dict_get(data, "tool_input", "{}"),
    dict_get(data, "tool_output", NoVal),
    dict_get(data, "success", TRUE),
    dict_get(data, "duration_ms", 0),
    dict_get(data, "blocked", FALSE),
    dict_get(data, "blocked_reason", NoVal),
    dict_get(data, "source", "unknown"),
    dict_get(data, "timestamp", NoVal))

\* No tool call built yet
NoToolCall ==
  LET call == NormalizedToolCall("Bash", "{}", NoVal, TRUE, 0, FALSE, NoVal, "unknown", NoVal)
  IN [ stage |-> "none", call |-> call, data |-> to_dict(call), parsed |-> call ]

tcFrame == << replayVars, apiVars, dm, ck, ih, cb, pt, sc, ml, ex, bs, scent, lp >>

InitTc == tc = NoToolCall

\* NormalizedToolCall(...): a tool call is built
NewToolCall ==
  /\ \E tool_name \in ToolNames, tool_input \in ToolInputs, tool_output \in ToolOutputs,
        success \in BOOLEAN, duration_ms \in Durations, blocked \in BOOLEAN,
        blocked_reason \in BlockedReasons, source \in ToolSources, timestamp \in Timestamps :
       tc' = [ NoToolCall EXCEPT
                 !.stage = "built",
                 !.call = NormalizedToolCall(tool_name, tool_input, tool_output, success,
                                             duration_ms, blocked, blocked_reason, source,
                                             timestamp) ]
  /\ UNCHANGED tcFrame

\* call.to_dict()
ToDict ==
  /\ tc.stage = "built"
  /\ tc' = [ tc EXCEPT !.stage = "dict", !.data = to_dict(tc.call) ]
  /\ UNCHANGED tcFrame

\* NormalizedToolCall.from_dict(data)
FromDict ==
  /\ tc.stage = "dict"
  /\ tc' = [ tc EXCEPT !.stage = "parsed", !.parsed = from_dict(tc.data) ]
  /\ UNCHANGED tcFrame

NextToolCall == NewToolCall \/ ToDict \/ FromDict

\* ------------------------------------------------------------------------
\* A microloop run on the exit predicate (routing_helpers.py)

\* The iteration number of the first pass: 0 where the passes are numbered
\* from 0 ("Current iteration count (0-indexed)"), 1 where the number of
\* passes done is counted.
FirstIterations == {0, 1}

\* check_microloop_termination(handoff, routing_config, iteration): the exit
\* reason, or None to go on
check_microloop_termination(status, can_further_iteration_help, max_iterations, success_values, iteration) ==
  LET state == MicroloopState(iteration, max_iterations, upper(status),
                              can_further_iteration_help, success_values)
      decision == should_exit_microloop(state)
  IN IF decision[1] THEN decision[2] ELSE NoVal

\* No microloop started yet
NoLoop ==
  [ started |-> FALSE, running |-> FALSE, first |-> 0, max_iterations |-> 1,
    success_values |-> << "VERIFIED" >>, current_iteration |-> 0, passes |-> 0,
    status |-> "", can_further_iteration_help |-> "yes", reason |-> NoVal ]

lpFrame == << replayVars, apiVars, dm, ck, ih, cb, pt, sc, ml, ex, bs, scent, tc >>

InitLp == lp = NoLoop

\* A step with a microloop begins: its routing_config, and the number its
\* first pass has
StartMicroloop ==
  /\ ~lp.started
  /\ \E first \in FirstIterations, max_iterations \in 1..MaxLoopIterations,
        success_values \in LoopSuccessValues :
       lp' = [NoLoop EXCEPT !.started = TRUE, !.running = TRUE, !.first = first,
                            !.max_iterations = max_iterations,
                            !.success_values = success_values,
                            !.current_iteration = first]
  /\ UNCHANGED lpFrame

\* One pass: implementer and critic run, the critic's handoff is put to
\* check_microloop_termination, and the loop exits or goes on to the next
\* iteration.
MicroloopPass ==
  /\ lp.running
  /\ \E status \in LoopStatuses, can_further_iteration_help \in CanHelpValues :
       LET reason == check_microloop_termination(status, can_further_iteration_help,
                                                 lp.max_iterations, lp.success_values,
                                                 lp.current_iteration)
       IN lp' = [lp EXCEPT !.passes = @ + 1,
                           !.status = status,
                           !.can_further_iteration_help = can_further_iteration_help,
                           !.reason = reason,
                           !.running = (reason = NoVal),
                           !.current_iteration = IF reason = NoVal THEN @ + 1 ELSE @]
  /\ UNCHANGED lpFrame

NextLoop == StartMicroloop \/ MicroloopPass

InitLibVars == InitDm /\ InitCk /\ InitIh /\ InitCb /\ InitPt /\ InitSc /\ InitMl /\ InitEx /\ InitBs /\ InitScent /\ InitTc /\ InitLp

NextReplay == Event(MaxEvents)

NextRecover ==
  \/ Event(MaxStoredEvents)
  \/ WriteRunState
  \/ VerifyRunState
  \/ RecoverRunState

vars == << replayVars, apiVars, libVars >>

\* The variables of the other part rest at one value in each specification.
InitReplay ==
  /\ InitReplayVars
  /\ disk = NoFile
  /\ tmp = NoFile
  /\ cache = NoFile
  /\ lock = NoClient
  /\ clock = 1
  /\ issued = 0
  /\ req = [c \in Clients |-> IdleRequest]
  /\ InitLibVars

InitApi == InitApiVars /\ InitReplayVars /\ InitLibVars

\* Replay of every log of at most MaxEvents events.
SpecReplay == InitReplay /\ [][NextReplay]_vars

\* A run that snapshots run_state.json while it logs, followed by a
\* verification or a recovery.
SpecRecover == InitReplay /\ [][NextRecover]_vars

\* The API server with its two clients.
SpecApi == InitApi /\ [][NextApi]_vars

\* A resume decision on what a run left on disk.
SpecResume == InitReplay /\ [][NextResume]_vars

\* A process that runs a step under an InterruptHandler.
SpecInterrupt == InitReplay /\ [][NextInterrupt]_vars

\* Context items put under a budget.
SpecBudget == InitReplay /\ [][NextBudget]_vars

\* A DetourMatcher asked about failing steps.
SpecDetour == InitReplay /\ [][NextDetour]_vars

\* A ProgressTracker fed with the outcomes of a step's iterations.
SpecProgress == InitReplay /\ [][NextProgress]_vars

\* A SidequestCatalog asked for its menu between recorded usages.
SpecCatalog == InitReplay /\ [][NextCatalog]_vars

\* A microloop state put to should_exit_microloop.
SpecMicroloop == InitReplay /\ [][NextMicroloop]_vars

\* An extraction microloop fed by a query function.
SpecExtract == InitReplay /\ [][NextExtract]_vars

\* A step followed by its boundary scan.
SpecBoundary == InitReplay /\ [][NextBoundary]_vars

\* A scent trail written by the steps of a run.
SpecTrail == InitReplay /\ [][NextTrail]_vars

\* A tool call written to a dictionary and read back.
SpecToolCall == InitReplay /\ [][NextToolCall]_vars

\* A microloop run pass by pass on check_microloop_termination.
SpecLoop == InitReplay /\ [][NextLoop]_vars

\* ------------------------------------------------------------------------
\* Properties of the replay model
\* ------------------------------------------------------------------------

TerminalStatuses == {"succeeded", "failed", "stopped"}

\* C1: the interruption-stack depth right after a detour_completed event is
\* applied equals the depth right before the corresponding detour_started
\* event was applied (detour events pair up innermost first), whatever
\* events were applied between the two.
C1_DetourDepthRestored ==
  lastDetour.matched => lastDetour.after = lastDetour.before

\* C2: once run_completed, run_failed or run_stopped has put the run in a
\* terminal status, no later event of the log changes the status.
C2_TerminalStatusIsFinal ==
  [][rstate.status \in TerminalStatuses => rstate'.status = rstate.status]_vars

\* A step id, with the empty string and None both read as no step.
StepOf(x) == IF x = "" THEN NoVal ELSE x

\* C13: when a detour_completed event closes a detour, the top frame is
\* popped, current_step_id becomes that frame's return_node, and this is the
\* step the detour was started from (the return node its detour_started
\* event put on the stack).
C13_DetourReturnsToItsStep ==
  lastDetour.matched =>
     /\ lastDetour.popped = 1
     /\ StepOf(rstate.current_step_id) = StepOf(lastDetour.top_return)
     /\ StepOf(rstate.current_step_id) = StepOf(lastDetour.started_from)

\* C17 (as claimed): applying a step_completed event advances step_index.
C17_StepCompletedAdvances ==
  lastStep.applied => rstate.step_index > lastStep.before

\* C17 (amended): applying a step_completed event that names a step and
\* carries next_step_index in its payload sets step_index to that value;
\* applying any other step_completed event leaves step_index as it is.
C17_StepCompletedSetsNextStepIndex ==
  lastStep.applied =>
     IF lastStep.named /\ lastStep.next # NoInt
     THEN rstate.step_index = lastStep.next
     ELSE rstate.step_index = lastStep.before

\* Witness of C17: a step_completed event with next_step_index above the
\* current step_index has been applied and step_index has that value.
C17_Witness ==
  /\ lastStep.applied
  /\ lastStep.named
  /\ lastStep.next > lastStep.before
  /\ rstate.step_index = lastStep.next

\* The stored state and the rebuilt state differ on a compared field.
StoredDisagrees ==
  /\ stored.present
  /\ nEvents > 0
  /\ \/ stored.st.run_id # rstate.run_id
     \/ stored.st.flow_key # rstate.flow_key
     \/ stored.st.status # rstate.status
     \/ stored.st.step_index # rstate.step_index
     \/ stored.st.current_step_id # rstate.current_step_id
     \/ stored.st.current_flow_index # rstate.current_flow_index
     \/ stored.st.completed_nodes # rstate.completed_nodes
     \/ stored.st.injected_nodes # rstate.injected_nodes

Recovered == phase = "done" /\ outcome.op = "recover"

\* C3 (as claimed): when run_state.json disagrees with the state rebuilt
\* from the log, recovery returns the rebuilt state.
C3_RecoverReturnsRebuilt ==
  (Recovered /\ StoredDisagrees) => (outcome.found /\ outcome.result = rstate)

\* C3 (amended): when run_state.json disagrees with the state rebuilt from
\* the log, recover_run_state returns the rebuilt state if it is called with
\* force=True and the stored state if it is called with force=False.
C3_RecoverReturnsRebuiltOnlyWhenForced ==
  (Recovered /\ StoredDisagrees) =>
     /\ outcome.found
     /\ outcome.force => outcome.result = rstate
     /\ ~outcome.force => outcome.result = stored.st

\* Witness of C3: an unforced recovery of a run whose stored state disagrees
\* with its log has returned the stored state.
C3_Witness ==
  /\ Recovered
  /\ StoredDisagrees
  /\ ~outcome.force
  /\ outcome.result = stored.st
  /\ outcome.result # rstate

\* The live run is inside an injected utility flow.
InjectedFlowOnTop ==
  /\ live.interruption_stack # << >>
  /\ peek_interruption(live).reason = "utility_flow"

\* C4: replaying a log with a utility_flow_injected event yields the state
\* the live run had after it: flow_key switched to the utility flow and the
\* injection's frame on the interruption stack.
C4_ReplayReconstructsInjectedFlow ==
  InjectedFlowOnTop =>
     /\ rstate.flow_key = live.flow_key
     /\ get_interruption_depth(rstate) = get_interruption_depth(live)
     /\ FieldsMatch(rstate, live)

\* ------------------------------------------------------------------------
\* Properties of the API model
\* ------------------------------------------------------------------------

\* The client whose request takes the step.
ActsOn(c) == req'[c].pc # req[c].pc

\* C6: once a run's status is canceled, no step of any API request changes
\* its status again.
C6_CancelIsIrreversible ==
  [][(RunExists /\ Current.status = "canceled") => Current'.status = "canceled"]_vars

\* C7: a pause request whose status check reads pending or running goes on
\* to its update; one whose check reads any other status is answered 409 and
\* leaves the status as it is; and a pause request changes the status only
\* to paused and only after its check read pending or running.
C7_PauseOnlyFromPendingOrRunning ==
  [][\A c \in Clients :
       (ActsOn(c) /\ req[c].op = "pause" /\ RunExists) =>
          /\ req[c].pc = "start" =>
               IF Current.status \in {"pending", "running"}
               THEN req'[c].pc = "update"
               ELSE /\ req'[c].pc = "done"
                    /\ req'[c].resp = 409
                    /\ Current'.status = Current.status
          /\ Current'.status # Current.status =>
               /\ Current'.status = "paused"
               /\ req[c].checked \in {"pending", "running"}]_vars

\* Witness of C7: one pause request was answered 409 on a status other than
\* pending and running, another one paused the run.
C7_Witness ==
  /\ \E c \in Clients :
       /\ req[c].op = "pause" /\ req[c].pc = "done" /\ req[c].resp = 409
       /\ req[c].checked \notin {"pending", "running", NoVal}
  /\ \E c \in Clients :
       /\ req[c].op = "pause" /\ req[c].pc = "done" /\ req[c].resp = 200
       /\ Current.status = "paused"

\* C8: a cancel request on a run whose status is terminal (succeeded,
\* failed, stopped, canceled) is rejected with 409 and writes nothing.
C8_CancelRejectedWhenTerminal ==
  \A c \in Clients :
    (req[c].op = "cancel" /\ req[c].checked \in {"succeeded", "failed", "stopped", "canceled"})
      => /\ ~req[c].wrote
         /\ req[c].pc = "done" => req[c].resp = 409

\* The request of c was a control request on an existing run and has been
\* answered.
Answered(c) == req[c].op \in Mutating /\ req[c].pc = "done" /\ req[c].found

\* C9 (as claimed): a state-mutating request whose If-Match differs from the
\* ETag of the run's current state is answered 412.
C9_EtagMismatchIs412 ==
  \A c \in Clients :
    (/\ Answered(c)
     /\ req[c].if_match # "absent"
     /\ (req[c].if_match \in {"empty", "stale"} \/ req[c].tag # req[c].etag_seen))
      => req[c].resp = 412

\* C9 (amended): a state-mutating request on an existing run that passes its
\* status check (is not answered 409) and whose If-Match is non-empty and
\* differs from the ETag update_run computes for the run's state is answered
\* 412.
C9_EtagMismatchIs412AfterStatusCheck ==
  \A c \in Clients :
    (/\ Answered(c)
     /\ req[c].resp # 409
     /\ req[c].if_match \in {"tag", "stale"}
     /\ (req[c].if_match = "stale" \/ req[c].tag # req[c].etag_cur))
      => (req[c].compared /\ req[c].resp = 412 /\ ~req[c].wrote)

\* Witness of C9: a request that passed its status check was answered 412.
C9_Witness ==
  \E c \in Clients :
    /\ Answered(c)
    /\ req[c].compared
    /\ req[c].if_match \in {"tag", "stale"}
    /\ req[c].resp = 412

\* C10: every write of the run's state file happens while the writing
\* request holds the run's lock.
C10_WritesHoldLock ==
  \A c \in Clients : req[c].pc = "save" => lock = c

\* C11: a reader of run_state.json never finds a partial file, at whatever
\* moment of whatever write it reads, and the file only ever changes from one
\* complete state to the complete state a _save_state call is saving.
C11_ReadersSeeCompleteState ==
  /\ [](disk.present => disk.complete)
  /\ [][disk' # disk =>
         \E c \in Clients : /\ req[c].pc = "written"
                            /\ disk' = File(Saving(c))]_vars

\* Witness of C11: a write is under way (the text of the new state is partly
\* written) while the complete previous state is what a reader finds.
C11_Witness ==
  /\ \E c \in Clients : req[c].pc = "writing" /\ Saving(c) # disk.st
  /\ disk.present
  /\ disk.complete
  /\ tmp.present
  /\ ~tmp.complete

\* ------------------------------------------------------------------------
\* Properties of the library models
\* ------------------------------------------------------------------------

\* C12: no detour is produced for a signature on a step once the attempts
\* recorded for the pair have reached the signature's max_attempts, and the
\* number of detours issued for a pair is never above max_attempts.
C12_DetoursWithinMaxAttempts ==
  /\ dm.answer.decision = "DETOUR" => dm.answer.attempts_before < dm.answer.max_attempts
  /\ \A k \in AttemptKeys : dm.issued[k] <= dm.signatures[k[2]].max_attempts

\* The receipt files of the directory that load.
Loadable == {i \in 1..Len(ck.files) : ck.files[i].content # "corrupt"}

\* The last receipt: one of highest step index among those that load.
IsLast(i) ==
  /\ i \in Loadable
  /\ \A k \in Loadable :
       extract_step_index(ck.files[k].step_id) <= extract_step_index(ck.files[i].step_id)

\* C14: find_resume_point answers start_fresh at step 0 when the directory
\* has no receipt (none that loads), continue at step_index + 1 when the last
\* receipt has status succeeded, and retry at the last receipt's step_index
\* whenever the last receipt has another status.
C14_ResumePointByLastReceipt ==
  ck.scanned =>
     IF Loadable = {}
     THEN ck.resume.action = "start_fresh" /\ ck.resume.step_index = 0
     ELSE \E i \in Loadable :
            /\ IsLast(i)
            /\ ck.resume.last.step_id = ck.files[i].step_id
            /\ IF ck.files[i].content = "succeeded"
               THEN /\ ck.resume.action = "continue"
                    /\ ck.resume.step_index = extract_step_index(ck.files[i].step_id) + 1
               ELSE /\ ck.resume.action = "retry"
                    /\ ck.resume.step_index = extract_step_index(ck.files[i].step_id)

\* Witness of C14: a directory whose last receipt (step "1") failed, after a
\* succeeded step-0, was answered retry at step index 1.
C14_Witness ==
  /\ ck.scanned
  /\ Len(ck.files) = 2
  /\ ck.resume.action = "retry"
  /\ ck.resume.step_index = 1
  /\ \E i \in Loadable : ck.files[i].step_id = "step-0" /\ ck.files[i].content = "succeeded"

\* C15: when the last receipt's step has no step_completed event in the log,
\* or produced an envelope whose file is missing, find_resume_point answers
\* retry for that step and not continue past it.
C15_IncompleteStepIsRetried ==
  ck.scanned =>
     \A i \in Loadable :
       (/\ IsLast(i)
        /\ ck.resume.last.step_id = ck.files[i].step_id
        /\ (~ck.files[i].logged \/ ck.files[i].envelope = "missing"))
         => /\ ck.resume.action = "retry"
            /\ ck.resume.step_id = ck.files[i].step_id

\* The process has exited through _handle_signal.
ExitedThroughHandler == ih.pc = "exited"

\* C16 (as claimed): whenever the process has exited through the handler,
\* with code 128 + signum, interrupt_state.json has been written.
C16_InterruptStateWrittenBeforeExit ==
  ExitedThroughHandler =>
     /\ ih.exit_code = 128 + ih.signum
     /\ ih.file.present
     /\ ih.file.complete

\* C16 (amended): the process exits through the handler with code
\* 128 + signum; interrupt_state.json has been written, with the handler's
\* step, flow, partial work, flushed artifacts and can_resume_cleanly, when
\* save_interrupt_state returned, and the process exits all the same when
\* save_interrupt_state raised, with no file or an incomplete one.
C16_InterruptStateWrittenUnlessSaveRaises ==
  ExitedThroughHandler =>
     /\ ih.exit_code = 128 + ih.signum
     /\ ih.save = "ok" =>
          /\ ih.file.present
          /\ ih.file.complete
          /\ ih.file.data = interrupt_state_of(ih)
     /\ ih.save # "ok" => ~(ih.file.present /\ ih.file.complete)

\* Witness of C16: a SIGTERM was handled with partial work at hand, the
\* state file was written and the process exited with code 143.
C16_Witness ==
  /\ ExitedThroughHandler
  /\ ih.signum = SIGTERM
  /\ ih.exit_code = 143
  /\ ih.save = "ok"
  /\ ih.file.present
  /\ ih.file.data.partial_work = "editing"
  /\ ~ih.file.data.can_resume_cleanly

\* C18: the total tokens of the loaded set are within the budget unless the
\* loaded set holds CRITICAL items only: no HIGH, MEDIUM or LOW item, whole or
\* truncated, is loaded with the total going over the budget.
C18_TotalWithinBudget ==
  cb.called =>
     \/ cb.result.total_tokens <= cb.result.budget
     \/ \A i \in 1..Len(cb.result.loaded_items) :
          cb.result.loaded_items[i].priority = CRITICAL

\* C19: every CRITICAL item given to enforce is in the loaded set with its
\* whole content, not truncated and not dropped, whatever the budget and the
\* other items.
C19_CriticalAlwaysLoaded ==
  cb.called =>
     \A i \in 1..Len(cb.items) :
       cb.items[i].priority = CRITICAL =>
          \E j \in 1..Len(cb.result.loaded_items) :
            /\ cb.result.loaded_items[j].key = cb.items[i].key
            /\ cb.result.loaded_items[j].content = cb.items[i].content
            /\ cb.result.loaded_items[j].tokens = count_tokens(cb.items[i].content)
            /\ ~cb.result.loaded_items[j].truncated
            /\ ~cb.result.loaded_items[j].dropped

\* Witness of C19: a CRITICAL item larger than the budget was loaded whole
\* while the other item was dropped.
C19_Witness ==
  /\ cb.called
  /\ Len(cb.result.loaded_items) = 1
  /\ cb.result.loaded_items[1].priority = CRITICAL
  /\ ~cb.result.loaded_items[1].truncated
  /\ cb.result.loaded_items[1].tokens > cb.result.budget
  /\ Len(cb.result.dropped_items) = 1

\* ------------------------------------------------------------------------
\* Properties of the progress tracker

\* C20: immediately after record_success the tracker is not stalled,
\* whatever was recorded before.
C20_SuccessBreaksStall ==
  pt.called = "record_success" => ~is_stalled(pt)

\* The last n recorded signatures are all the same one.
LastAllEqual(n) ==
  \A i, j \in (Len(pt.error_signatures) - n + 1)..Len(pt.error_signatures) :
    pt.error_signatures[i] = pt.error_signatures[j]

\* C21: is_stalled is true exactly when at least stall_threshold signatures
\* are recorded and the last stall_threshold of them are identical.
C21_StalledIffLastThresholdEqual ==
  is_stalled(pt) <=>
    /\ Len(pt.error_signatures) >= pt.stall_threshold
    /\ LastAllEqual(pt.stall_threshold)

\* C21: a stalled tracker whose history is longer than the threshold and
\* holds another signature before the repeated ones.
C21_Witness ==
  /\ is_stalled(pt)
  /\ Len(pt.error_signatures) > pt.stall_threshold
  /\ pt.error_signatures[1] # pt.error_signatures[Len(pt.error_signatures)]

\* The signature at the end of the history closes a run of exactly n equal
\* signatures.
TrailingRun(n) ==
  /\ n <= Len(pt.error_signatures)
  /\ (n > 0 => LastAllEqual(n))
  /\ n < Len(pt.error_signatures) =>
       pt.error_signatures[Len(pt.error_signatures) - n] #
         pt.error_signatures[Len(pt.error_signatures)]

\* C22: the recommendation is escalate when the trailing run of identical
\* signatures is at least twice the threshold long, and is not escalate when
\* it is shorter.
C22_EscalateAtTwiceThreshold ==
  \A n \in 0..Len(pt.error_signatures) :
    TrailingRun(n) =>
      /\ get_stall_info(pt).stall_count = n
      /\ (get_stall_info(pt).recommendation = "escalate") <=>
           (n >= 2 * pt.stall_threshold)

\* C22: a tracker that recommends escalation.
C22_Witness ==
  /\ get_stall_info(pt).recommendation = "escalate"
  /\ pt.called = "record_iteration"

C24_UsedUpSidequestNotApplicable ==
  sc.asked =>
    \A i \in 1..Len(sc.answer) :
      sc.recorded[sc.asked_run][sc.answer[i].sidequest_id]
        < sc.answer[i].max_uses_per_run

\* C24: a call for a run in which one sidequest is used up and leaves the
\* menu while the other one is still offered.
C24_Witness ==
  /\ sc.asked
  /\ sc.asked_run = "run-1"
  /\ sc.recorded["run-1"]["security-audit"] = 1
  /\ Len(sc.answer) = 1
  /\ sc.answer[1].sidequest_id = "clarifier"

\* ------------------------------------------------------------------------
\* Properties of the microloop exit decision

\* C25: the decision in strict priority order, with the status looked up in
\* success_values as it is written and can_further_iteration_help compared
\* with "no": status_verified, else max_iterations_reached, else
\* no_further_help, else continue.
C25_ExitInPriorityOrder ==
  ml.decided =>
    ml.result =
      IF \E i \in 1..Len(ml.state.success_values) :
           ml.state.status = ml.state.success_values[i]
      THEN << TRUE, "status_verified" >>
      ELSE IF ml.state.current_iteration >= ml.state.max_iterations
      THEN << TRUE, "max_iterations_reached" >>
      ELSE IF ml.state.can_further_iteration_help = "no"
      THEN << TRUE, "no_further_help" >>
      ELSE << FALSE, "" >>

\* The status equals a success value when case is ignored.
StatusSucceedsIgnoringCase ==
  \E i \in 1..Len(ml.state.success_values) :
    \/ ml.state.status = ml.state.success_values[i]
    \/ ml.state.status = "verified" /\ ml.state.success_values[i] = "VERIFIED"
    \/ ml.state.status = "complete" /\ ml.state.success_values[i] = "COMPLETE"

\* can_further_iteration_help is True, None or one of yes, true, 1 in any
\* case.
HelpIsPossible ==
  ml.state.can_further_iteration_help \in {"yes", "YES", "True", "None"}

\* C25: the same priority order, with the status compared ignoring case and
\* every can_further_iteration_help that is not an affirmative value counted
\* as no.
C25_ExitInPriorityOrderNormalized ==
  ml.decided =>
    ml.result =
      IF StatusSucceedsIgnoringCase THEN << TRUE, "status_verified" >>
      ELSE IF ml.state.current_iteration >= ml.state.max_iterations
      THEN << TRUE, "max_iterations_reached" >>
      ELSE IF ~HelpIsPossible THEN << TRUE, "no_further_help" >>
      ELSE << FALSE, "" >>

\* C25: an unverified step at its iteration limit whose critic also says no:
\* the limit is the reason given.
C25_Witness ==
  /\ ml.decided
  /\ ml.state.status = "UNVERIFIED"
  /\ ml.state.current_iteration >= ml.state.max_iterations
  /\ ml.state.can_further_iteration_help = "no"
  /\ ml.result = << TRUE, "max_iterations_reached" >>

\* ------------------------------------------------------------------------
\* Properties of the structured output extractor

\* The object has the required fields, count is an integer of at least 0
\* and status is one of the strings of the enum.
ConformsToStepSchema(data) ==
  /\ data.count.t = "int"
  /\ data.count.n >= 0
  /\ data.status.t = "str"
  /\ data.status.s \in {"ok", "bad"}

\* C26: when the extraction returns success, the returned data conforms to
\* the schema (required fields, types, enum values, constraints).
C26_SuccessMeansConforming ==
  (~ex.running /\ ex.success) => ex.has_data /\ ConformsToStepSchema(ex.data)

SameConflict(a, b) ==
  /\ a.prior_decision = b.prior_decision
  /\ a.current_finding = b.current_finding
  /\ a.recommendation = b.recommendation
  /\ a.impact = b.impact
  /\ a.detected_at = b.detected_at

\* C29: decision and conflict records are append-only: no ScentTrail
\* operation removes or reorders a record added before; every earlier record
\* stays at its position.
C29_RecordsAppendOnly ==
  [][ /\ Len(scent'.decisions) >= Len(scent.decisions)
      /\ \A i \in 1..Len(scent.decisions) : scent'.decisions[i] = scent.decisions[i]
      /\ Len(scent'.conflicts) >= Len(scent.conflicts)
      /\ \A i \in 1..Len(scent.conflicts) : SameConflict(scent'.conflicts[i], scent.conflicts[i])
    ]_vars

\* C29: a trail with two conflicts on the same decision of which the first
\* has been resolved, next to a decision.
C29_Witness ==
  /\ Len(scent.conflicts) = 2
  /\ scent.conflicts[1].resolved
  /\ ~scent.conflicts[2].resolved
  /\ Len(scent.decisions) = 1

\* The new decision shares a word with the existing one and one of the two
\* holds a negation word.
OverlapWithNegation(new_decision, existing) ==
  LET lowered(text) == { IF text[i] = "Use" THEN "use" ELSE text[i] : i \in 1..Len(text) }
      negations == {"not", "no", "don't", "won't", "instead", "rather", "reject"}
  IN  /\ lowered(new_decision) \cap lowered(existing) # {}
      /\ (lowered(new_decision) \cup lowered(existing)) \cap negations # {}

\* C30: check_for_conflicts reports a potential conflict whenever the new
\* decision's words overlap with an existing decision and a negation word
\* is involved.
C30_OverlapWithNegationReported ==
  scent.checked.called =>
    ( (\E i \in 1..Len(scent.decisions) :
         OverlapWithNegation(scent.checked.new_decision, scent.decisions[i].decision))
      => Len(scent.checked.potential_conflicts) >= 1 )

\* ------------------------------------------------------------------------
\* Properties of the tool call model

\* C31: NormalizedToolCall.from_dict applied to the output of to_dict
\* preserves all fields of the original tool call.
C31_RoundTripPreservesFields ==
  tc.stage = "parsed" => tc.parsed = tc.call

\* ------------------------------------------------------------------------
\* More properties of the API model

Alone(c) == \A o \in Clients \ {c} : req[o].pc = "idle"

\* C33: a state-mutating request that carries as If-Match the ETag of the
\* latest read of the run, with no other change to the run in between, is
\* not answered 412.
C33_FreshEtagAccepted ==
  \A c \in Clients :
    (Answered(c) /\ Alone(c) /\ req[c].if_match = "tag") => req[c].resp # 412

\* C34: a control request that is rejected with 409 or 412 has no effect:
\* the state served by later reads is the state the run had before the
\* request.
C34_RejectedRequestHasNoEffect ==
  \A c \in Clients :
    (Answered(c) /\ Alone(c) /\ req[c].resp \in {409, 412})
      => compute_etag(Current) = req[c].etag_seen

\* C35: creating a run never replaces the state of an already existing run
\* that has the same run_id.
C35_CreateKeepsExistingRun ==
  [][\A c \in Clients :
       (ActsOn(c) /\ req[c].op = "create" /\ RunExists) => Current' = Current]_vars

\* The runs one API request, served alone, can make of a run: its status,
\* and whether it still is the run it was (create_run puts a new state dict
\* with a new created_at in its place).
ServedAlone(run) ==
  {[status |-> "pending", replaced |-> TRUE], run}
  \cup {[run EXCEPT !.status = apply_updates(ExistingRun(run.status), op, 0,
                                              ExistingRun(run.status)).status] :
          op \in {o \in Mutating : valid_status(o, run.status)}}

\* Every run some sequence of API requests can make of the runs in S.
RECURSIVE ReachableByRequests(_)
ReachableByRequests(S) ==
  LET T == S \cup UNION {ServedAlone(run) : run \in S}
  IN IF T = S THEN S ELSE ReachableByRequests(T)

\* C36: a run put in status interrupted by the interrupt endpoint can be
\* brought back to running by some sequence of API requests.
C36_InterruptedRunCanRunAgain ==
  \A c \in Clients :
    (/\ req[c].op = "interrupt" /\ req[c].pc = "done" /\ req[c].resp = 200
     /\ \A o \in Clients \ {c} : req[o].pc \in {"idle", "done"}
     /\ Current.status = "interrupted")
      => \E run \in ReachableByRequests({[status |-> "interrupted", replaced |-> FALSE]}) :
           run.status = "running" /\ ~run.replaced

\* ------------------------------------------------------------------------
\* More properties of the library models

\* The registered signatures the forensics match.
Hits(forensics) == {id \in forensics : dm.signatures[id].registered}

\* C37: when the highest-priority signature matching a failure has reached
\* its attempt limit on a step, a different matching signature that still
\* has attempts left on that step is still offered as a detour.
C37_NextSignatureOffered ==
  \A step_id \in DetourSteps, forensics \in SUBSET SignatureIds :
    LET found == match(dm, forensics, step_id)
    IN (/\ found.matched
        /\ check_attempt_limit(dm, found.signature_id, step_id)
        /\ \E other \in Hits(forensics) \ {found.signature_id} :
             ~check_attempt_limit(dm, other, step_id))
         => LET offered == should_detour(dm, forensics, step_id)
            IN /\ offered.matched
               /\ offered.signature_id \in Hits(forensics)
               /\ ~check_attempt_limit(dm, offered.signature_id, step_id)

\* C38: a microloop whose current_iteration increases by one on each pass
\* exits after at most max_iterations passes, whatever status and
\* can_further_iteration_help values the critic returns.
C38_ExitsWithinMaxIterations ==
  lp.passes <= lp.max_iterations

\* C39: extract_with_microloop calls query_fn at most max_attempts times,
\* and on return the reported attempts equals both the number of calls made
\* and the length of raw_responses.
C39_AttemptsCountCalls ==
  /\ ex.calls <= ex.max_attempts
  /\ (ex.max_attempts > 0 /\ ~ex.running) =>
       /\ ex.attempts = ex.calls
       /\ ex.attempts = Len(ex.raw_responses)

\* C39: an extraction has returned after using all of its two attempts, one
\* query having raised and one having answered.
C39_Witness ==
  /\ ~ex.running
  /\ ex.max_attempts = 2
  /\ ex.calls = 2
  /\ \E i \in 1..Len(ex.raw_responses) : ex.raw_responses[i] = "[QUERY_ERROR]"
  /\ \E i \in 1..Len(ex.raw_responses) : ex.raw_responses[i] # "[QUERY_ERROR]"

\* C40: an assumption's status moves only from ACTIVE to VALIDATED or from
\* ACTIVE to INVALIDATED; once validated or invalidated it never changes
\* again.
C40_AssumptionStatusMovesOnce ==
  [][\A i \in 1..Len(scent.assumptions_in_effect) :
       /\ i <= Len(scent'.assumptions_in_effect)
       /\ scent'.assumptions_in_effect[i].status # scent.assumptions_in_effect[i].status
            => /\ scent.assumptions_in_effect[i].status = "ACTIVE"
               /\ scent'.assumptions_in_effect[i].status \in {"VALIDATED", "INVALIDATED"}]_vars

\* C40: the trail holds a record that validate_assumption has moved to
\* VALIDATED and one that invalidate_assumption has moved to INVALIDATED.
C40_Witness ==
  /\ \E i \in 1..Len(scent.assumptions_in_effect) :
       scent.assumptions_in_effect[i].status = "VALIDATED"
  /\ \E i \in 1..Len(scent.assumptions_in_effect) :
       scent.assumptions_in_effect[i].status = "INVALIDATED"

====
